---- MODULE Spec2Model ----
(***************************************************************************)
(* Approval rendezvous engine of Replic: the approval gateway (candidate   *)
(* store, token buckets, spacing marks, channel webhooks, timeout sweeper) *)
(* and the agent orchestrator's pending-decision futures.                  *)
(*                                                                         *)
(* Every coroutine is cut at its awaits: one action is one storage or      *)
(* network operation together with the synchronous code that follows it    *)
(* up to the next await, which is how the asyncio event loop interleaves   *)
(* the handlers.                                                           *)
(***************************************************************************)
EXTENDS Integers, Sequences, FiniteSets, TLC

(***************************************************************************)
(* Bounds of the model                                                     *)
(***************************************************************************)
\* capacity of a bucket, in tokens (settings.wa_bucket_capacity is env-sourced)
Capacity == 2
\* largest count handed to take()
MaxCost == 2
\* call budget of one bucket run
MaxCalls == 3
\* seconds the bucket clock may advance one by one
MaxTime == 2
\* number of concurrent callers of one bucket
NProcs == 2
\* settings.min_spacing_sec (env-sourced), in seconds
MinSpacingSec == 2
\* call budget of one spacing run
MaxSpacingCalls == 3
\* number of candidate ids of a gateway run
NIds == 2
\* requests of a gateway run: submissions, channel replies, sweeps
MaxSubmits == 1
MaxReplies == 2
MaxSweeps == 1
\* the gateway clock advances in steps of the sweep interval, this many times
MaxGatewayTicks == 1
\* settings.wa_bucket_capacity = settings.imsg_bucket_capacity (env-sourced)
GatewayCapacity == 1
\* budgets of a run of submissions one after the other
MaxSeqSubmits == 3
MaxBodyLen == 250
\* brand approval_timeout_sec of the run, longer than DeadlineSec plus a
\* sweep interval (defaults: 1200 against 900 + 10), and the sweep
\* intervals the run is followed over
ApprovalTimeoutSec == 30
MaxFlowTicks == 4
\* sweeps and sweep intervals of a run in which calls of the sweeper may fail
MaxFailSweeps == 1
MaxFailTicks == 3
\* sweeps, and sweep intervals, of a run of the sweeper up to shutdown
MaxLoopSweeps == 3
\* calls of the rate limiter for the brands, and the sweep intervals they
\* are spread over
MaxKeyCalls == 4
\* decision webhooks received during a run that goes on to publish
MaxExecDeliveries == 2
\* log_activity calls in flight together, and the entries logged whose
\* candidate has the earlier of the creation times
MaxLogCallers == 2
MaxEarlyEntries == 3
MaxKeyTicks == 2
\* entries logged, and the lowest limit requested is -MaxNegLimit
MaxLogged == 103
MaxNegLimit == 2
MaxSeqTicks == 4
\* Candidate.deadline_sec of the submitted candidates
DeadlineSec == 10
\* platforms of the orchestrator's run, one candidate each
NPlatforms == 2
\* POST /decisions requests of an orchestrator run
MaxDeliveries == 3

(***************************************************************************)
(* Program constants                                                       *)
(***************************************************************************)
\* redis.expire(self.key, 86400)
BucketTtlSec == 86400
\* await asyncio.sleep(10) of check_timeouts
SweepIntervalSec == 10
\* settings.min_spacing_sec, default
GatewayMinSpacingSec == 20

\* tokens are floats in the source; the model counts them in units of
\* 1/TokenUnit token, so that a refill can leave a fraction of a token
TokenUnit == 2
\* refill rates of the model, in units per second: 0, 1/2 and 1 token/s
Rates == {0, 1, 2}

NoTtl == -1
None == -1
Min(a, b) == IF a <= b THEN a ELSE b

VARIABLES
    bnow,      \* time.time() of the rate limiter's process
    bkey,      \* the Redis hash bucket:<name>: exists, tokens, last_update, ttl_at
    brate,     \* TokenBucket.refill_per_second, in units per second
    bserial,   \* TRUE: calls on the bucket do not overlap
    bpc,       \* per caller: the await it is suspended at
    bloc,      \* per caller: the locals of its call
    bstat,     \* what the completed calls did: calls, takes, granted, only1, resets
    \* ---- RateLimiter.enforce_spacing on one key
    snow,      \* time.time()
    smark,     \* the Redis string spacing:<key>: exists, at, ttl_at
    sserial,   \* TRUE: calls on the key do not overlap
    spc,       \* per caller: the await it is suspended at
    sloc,      \* per caller: its local now
    scalls,    \* number of calls made
    slast,     \* time.time() of the last call that returned True (None: none yet)
    sdenied,   \* number of calls that returned False
    \* ---- the approval gateway (main.py, redis_store.py)
    gnow,      \* datetime.now / time.time of the gateway process
    grec,      \* Redis cr:<id>:state per candidate id (status "none": no key)
    grate,     \* refill rate of the prompt buckets, in units per second
    gowner,    \* the Candidate model declares owner_whatsapp and owner_imessage
    gbucket,   \* Redis bucket:<chan>:prompt:<brand> per channel
    gmark,     \* Redis spacing:<chan>:<brand> per channel
    gsent,     \* per channel: number of approval prompts sent
    rc,        \* the receive_candidate request in flight
    wh,        \* per channel: the webhook request in flight
    sw,        \* the check_timeouts task
    gdisp,     \* per id: the decisions POSTed by send_decision_to_core, in order
    gact,      \* per id: number of entries log_activity has added
    gterm,     \* per id: the actor whose write first made the record terminal
    gcount,    \* requests served so far: submits, replies, sweeps
    \* ---- the agent orchestrator (agent-orchestrator/main.py)
    osecret,   \* settings.decision_webhook_signing_secret is not empty
    ofut,      \* PENDING_DECISIONS: per candidate id, its future
    orun,      \* the run: the node it is in, the platform it is at, decisions
    olast,     \* the last POST /decisions: id, payload, response
    ofirst,    \* per id: the first verified decision delivered to a pending future
    ocount,    \* number of POST /decisions served
    \* ---- the run being explored
    lim,       \* its request budgets: submits, replies, sweeps, ticks,
               \* deliveries, platforms
    msg,       \* the last channel message received: channel, text, and the
               \* command its parser returned
    \* ---- the activity log of one brand (redis_store.py, GET /activity)
    alog,      \* Redis sorted set activity:<brand>: its number of entries
               \* (entry k is the one with the k-th lowest score)
    apc,       \* the log_activity call in flight: the await it is at
    aquery,    \* the last GET /activity: its limit and the entries returned
    azset,     \* the sorted set by score: count, the number of entries per
               \* created_at; calls, the log_activity calls between their
               \* ZADD and their ZREMRANGEBYRANK; added, early: the entries
               \* added so far, and those of the earlier created_at
    \* ---- send_decision_to_core observed (main.py)
    gpost,     \* per id: how the POSTs of its Decisions ended, in order
    \* ---- lifespan of the gateway application (main.py)
    glife,     \* running; cancelling: shutdown has called task.cancel();
               \* draining: it awaits the task; closed
    \* ---- the rate limiter's keys of several brands (rate_limit.py)
    kv         \* db: Redis, the value stored under each key that exists;
               \* takes, grants: per brand and channel, the takes made on its
               \* prompt bucket and those granted; calls: the calls made;
               \* last: the last of them

bvars == <<bnow, bkey, brate, bserial, bpc, bloc, bstat>>
svars == <<snow, smark, sserial, spc, sloc, scalls, slast, sdenied>>
gvars == <<gnow, grec, grate, gowner, gbucket, gmark, gsent, rc, wh, sw, gdisp, gact, gterm, gcount>>
ovars == <<osecret, ofut, orun, olast, ofirst, ocount>>
avars == <<alog, apc, aquery, azset>>
vars == <<bvars, svars, gvars, ovars, lim, kv, msg, avars, gpost, glife>>
notB == <<svars, gvars, ovars, lim, kv, msg, avars, gpost, glife>>
notS == <<bvars, gvars, ovars, lim, kv, msg, avars, gpost, glife>>
notG == <<bvars, svars, ovars, lim, kv, msg, avars, gpost, glife>>
notO == <<bvars, svars, gvars, lim, kv, msg, avars, gpost, glife>>
notA == <<bvars, svars, gvars, ovars, lim, kv, msg, gpost, glife>>

\* budgets of a run in which no request is made
NoLimits == [submits |-> 0, replies |-> 0, sweeps |-> 0, ticks |-> 0,
             deliveries |-> 0, platforms |-> 0]

Procs == 1..NProcs
\* a Redis key is gone once its TTL has run out
Live(k, now) == k.exists /\ (k.ttl_at = NoTtl \/ now < k.ttl_at)

(***************************************************************************)
(* RateLimiter.enforce_spacing (rate_limit.py)                             *)
(***************************************************************************)
NoMark == [exists |-> FALSE, at |-> 0, ttl_at |-> NoTtl]
MaxSpacingTime == 2 * MinSpacingSec + 1

\* mutant: a call exactly min_spacing_sec after the last one is refused too
TooSoonInclusive(now, last_time, m) == now - last_time <= m

\* elapsed = now - float(last_time); elapsed < min_spacing_sec
TooSoon(now, last_time, m) == now - last_time < m

\* SETEX spacing:<key> (2 * min_spacing_sec) str(now)
SetEx(now, value, m) == [exists |-> TRUE, at |-> value, ttl_at |-> now + 2 * m]

SpacingInFlight == Cardinality({p \in Procs : spc[p] # "idle"})

\* enforce_spacing is entered: GET spacing:<key> is issued
SCall(p) ==
    /\ spc[p] = "idle"
    /\ scalls < MaxSpacingCalls
    /\ sserial => (SpacingInFlight = 0 /\ p = 1)
    /\ spc' = [spc EXCEPT ![p] = "get"]
    /\ scalls' = scalls + 1
    /\ UNCHANGED <<snow, smark, sserial, sloc, slast, sdenied, notS>>

\* GET answers; now = time.time(); a mark less than min_spacing_sec old
\* returns False, otherwise SETEX is issued
SGet(p) ==
    /\ spc[p] = "get"
    /\ IF Live(smark, snow) /\ TooSoon(snow, smark.at, MinSpacingSec)
       THEN /\ spc' = [spc EXCEPT ![p] = "idle"]
            /\ sdenied' = sdenied + 1
            /\ UNCHANGED sloc
       ELSE /\ spc' = [spc EXCEPT ![p] = "setex"]
            /\ sloc' = [sloc EXCEPT ![p] = snow]
            /\ UNCHANGED sdenied
    /\ UNCHANGED <<snow, smark, sserial, scalls, slast, notS>>

\* SETEX stores the caller's now with TTL 2 * min_spacing_sec; returns True
SSetEx(p) ==
    /\ spc[p] = "setex"
    /\ smark' = SetEx(snow, sloc[p], MinSpacingSec)
    /\ slast' = sloc[p]
    /\ spc' = [spc EXCEPT ![p] = "idle"]
    /\ sloc' = [sloc EXCEPT ![p] = 0]
    /\ UNCHANGED <<snow, sserial, scalls, sdenied, notS>>

STick ==
    /\ snow < MaxSpacingTime
    /\ snow' = snow + 1
    /\ UNCHANGED <<smark, sserial, spc, sloc, scalls, slast, sdenied, notS>>

SpacingIdle ==
    /\ snow = 0 /\ smark = NoMark /\ sserial = TRUE
    /\ spc = [p \in Procs |-> "idle"] /\ sloc = [p \in Procs |-> 0]
    /\ scalls = 0 /\ slast = None /\ sdenied = 0

SpacingInit(serial) ==
    /\ snow = 0 /\ smark = NoMark /\ sserial = serial
    /\ spc = [p \in Procs |-> "idle"] /\ sloc = [p \in Procs |-> 0]
    /\ scalls = 0 /\ slast = None /\ sdenied = 0

SpacingNext ==
    \/ \E p \in Procs : SCall(p)
    \/ \E p \in Procs : SGet(p)
    \/ \E p \in Procs : SSetEx(p)
    \/ STick


(***************************************************************************)
(* TokenBucket (rate_limit.py)                                             *)
(***************************************************************************)
CapUnits == Capacity * TokenUnit

NoKey == [exists |-> FALSE, tokens |-> 0, last_update |-> 0, ttl_at |-> NoTtl]

IdleLoc == [op |-> "none", count |-> 0, tokens |-> 0, now |-> 0, taken |-> FALSE]

\* HSET tokens/last_update: creates the key (without TTL) when it is gone
HSet(k, now, tokens, last_update) ==
    [exists |-> TRUE, tokens |-> tokens, last_update |-> last_update,
     ttl_at |-> IF Live(k, now) THEN k.ttl_at ELSE NoTtl]

\* EXPIRE key 86400: no effect on a missing key
Expire(k, now) ==
    IF Live(k, now) THEN [k EXCEPT !.ttl_at = now + BucketTtlSec] ELSE NoKey

\* mutant: the refill is not capped at the capacity
RefillUncapped(tokens, last_update, now, rate) ==
    tokens + (now - last_update) * rate

\* mutant: the refill adds one second's worth whatever time has passed
RefillPerCall(tokens, last_update, now, rate) ==
    Min(CapUnits, tokens + rate)

\* new_tokens = min(capacity, tokens + elapsed * refill_per_second)
RefillTokens(tokens, last_update, now, rate) ==
    Min(CapUnits, tokens + (now - last_update) * rate)

\* mutant: the last token can never be taken
CanTakeStrict(tokens, count) == tokens > count * TokenUnit

\* tokens >= count
CanTake(tokens, count) == tokens >= count * TokenUnit

\* the call of p returns res (take: 1 for True, 0 for False; peek: the tokens)
Finish(p, res) ==
    /\ bstat' = [calls |-> bstat.calls + 1,
                 takes |-> bstat.takes + (IF bloc[p].op = "take" THEN 1 ELSE 0),
                 granted |-> bstat.granted
                     + (IF bloc[p].op = "take" THEN res * bloc[p].count * TokenUnit ELSE 0),
                 only1 |-> bstat.only1 /\ bloc[p].op = "take" /\ bloc[p].count = 1,
                 resets |-> bstat.resets \/ bloc[p].op = "reset"]
    /\ bpc' = [bpc EXCEPT ![p] = "idle"]
    /\ bloc' = [bloc EXCEPT ![p] = IdleLoc]

InFlight == Cardinality({p \in Procs : bpc[p] # "idle"})

\* a caller enters take(count) or peek(): _refill -> _get_state issues HMGET
BCall(p) ==
    /\ bpc[p] = "idle"
    /\ bstat.calls + InFlight < MaxCalls
    /\ bserial => (InFlight = 0 /\ p = 1)
    /\ \E op \in {"take", "peek"} : \E c \in 0..MaxCost :
          /\ op = "peek" => c = 0
          /\ bloc' = [bloc EXCEPT ![p] = [IdleLoc EXCEPT !.op = op, !.count = c]]
    /\ bpc' = [bpc EXCEPT ![p] = "hmget"]
    /\ UNCHANGED <<bnow, bkey, brate, bserial, bstat, notB>>

\* reset(): now = time.time(); _set_state(capacity, now) issues HSET
BReset(p) ==
    /\ bpc[p] = "idle"
    /\ bstat.calls + InFlight < MaxCalls
    /\ bserial => (InFlight = 0 /\ p = 1)
    /\ bloc' = [bloc EXCEPT ![p] = [IdleLoc EXCEPT !.op = "reset",
                                    !.tokens = CapUnits, !.now = bnow]]
    /\ bpc' = [bpc EXCEPT ![p] = "set_hset"]
    /\ UNCHANGED <<bnow, bkey, brate, bserial, bstat, notB>>

\* _get_state: HMGET answers. A missing field initializes the bucket to full
\* capacity (HSET next); otherwise _refill computes the refilled count.
BHmget(p) ==
    /\ bpc[p] = "hmget"
    /\ IF ~Live(bkey, bnow)
       THEN /\ bloc' = [bloc EXCEPT ![p].tokens = CapUnits, ![p].now = bnow]
            /\ bpc' = [bpc EXCEPT ![p] = "init_hset"]
       ELSE /\ bloc' = [bloc EXCEPT
                  ![p].tokens = RefillTokens(bkey.tokens, bkey.last_update, bnow, brate),
                  ![p].now = bnow]
            /\ bpc' = [bpc EXCEPT ![p] = "set_hset"]
    /\ UNCHANGED <<bnow, bkey, brate, bserial, bstat, notB>>

\* _get_state: HSET of the initial state
BInitHset(p) ==
    /\ bpc[p] = "init_hset"
    /\ bkey' = HSet(bkey, bnow, CapUnits, bloc[p].now)
    /\ bpc' = [bpc EXCEPT ![p] = "init_expire"]
    /\ UNCHANGED <<bnow, brate, bserial, bloc, bstat, notB>>

\* _get_state: EXPIRE, then back in _refill: now = time.time(), refill
BInitExpire(p) ==
    /\ bpc[p] = "init_expire"
    /\ bkey' = Expire(bkey, bnow)
    /\ bloc' = [bloc EXCEPT
          ![p].tokens = RefillTokens(CapUnits, bloc[p].now, bnow, brate),
          ![p].now = bnow]
    /\ bpc' = [bpc EXCEPT ![p] = "set_hset"]
    /\ UNCHANGED <<bnow, brate, bserial, bstat, notB>>

\* _set_state: HSET (tokens, last_update) of the caller's locals
BSetHset(p) ==
    /\ bpc[p] = "set_hset"
    /\ bkey' = HSet(bkey, bnow, bloc[p].tokens, bloc[p].now)
    /\ bpc' = [bpc EXCEPT ![p] = "set_expire"]
    /\ UNCHANGED <<bnow, brate, bserial, bloc, bstat, notB>>

\* _set_state: EXPIRE, then the code after the call:
\*   reset returns; peek returns tokens; take (after _refill) compares
\*   tokens >= count and either writes tokens - count or returns False;
\*   take (after its own write) returns True.
BSetExpire(p) ==
    /\ bpc[p] = "set_expire"
    /\ bkey' = Expire(bkey, bnow)
    /\ CASE bloc[p].op = "reset" -> Finish(p, CapUnits)
         [] bloc[p].op = "peek" -> Finish(p, bloc[p].tokens)
         [] bloc[p].op = "take" /\ ~bloc[p].taken ->
               IF CanTake(bloc[p].tokens, bloc[p].count)
               THEN /\ bloc' = [bloc EXCEPT ![p].taken = TRUE,
                          ![p].tokens = bloc[p].tokens - bloc[p].count * TokenUnit]
                    /\ bpc' = [bpc EXCEPT ![p] = "set_hset"]
                    /\ UNCHANGED bstat
               ELSE Finish(p, 0)
         [] bloc[p].op = "take" /\ bloc[p].taken -> Finish(p, 1)
    /\ UNCHANGED <<bnow, brate, bserial, notB>>

\* the clock advances by one second
BTick ==
    /\ (bnow % BucketTtlSec) < MaxTime
    /\ bnow' = bnow + 1
    /\ UNCHANGED <<bkey, brate, bserial, bpc, bloc, bstat, notB>>

\* a day passes without any traffic: the bucket key outlives its TTL
BDayPasses ==
    /\ bnow < BucketTtlSec
    /\ bnow' = bnow + BucketTtlSec
    /\ UNCHANGED <<bkey, brate, bserial, bpc, bloc, bstat, notB>>

BucketIdle ==
    /\ bnow = 0 /\ bkey = NoKey /\ brate = 0 /\ bserial = TRUE
    /\ bpc = [p \in Procs |-> "idle"] /\ bloc = [p \in Procs |-> IdleLoc]
    /\ bstat = [calls |-> 0, takes |-> 0, granted |-> 0, only1 |-> TRUE, resets |-> FALSE]

BucketInit(serial) ==
    /\ bnow = 0
    /\ bkey = NoKey
    /\ brate \in Rates
    /\ bserial = serial
    /\ bpc = [p \in Procs |-> "idle"]
    /\ bloc = [p \in Procs |-> IdleLoc]
    /\ bstat = [calls |-> 0, takes |-> 0, granted |-> 0, only1 |-> TRUE, resets |-> FALSE]

BucketCalls ==
    \/ \E p \in Procs : BCall(p)
    \/ \E p \in Procs : BReset(p)
    \/ \E p \in Procs : BHmget(p)
    \/ \E p \in Procs : BInitHset(p)
    \/ \E p \in Procs : BInitExpire(p)
    \/ \E p \in Procs : BSetHset(p)
    \/ \E p \in Procs : BSetExpire(p)


BucketNext == BucketCalls \/ BTick
BucketSeqNext == BucketCalls \/ BTick \/ BDayPasses


(***************************************************************************)
(* Approval gateway: candidate store, receive_candidate, channel webhooks, *)
(* check_timeouts (main.py, redis_store.py)                                *)
(***************************************************************************)
Ids == 1..NIds
Chans == {"wa", "imsg"}
Terminal == {"approved", "edited", "rejected", "expired"}
Commands == {"approved", "edited", "rejected"}

\* CandidateState; status "none" stands for a missing key
NoRec == [status |-> "none", created_at |-> 0, prompted_at |-> None,
          decided_at |-> None, decider |-> "none"]

\* Candidate.proposed_text of the submitted candidates
ProposedText == <<"h", "i">>

FinalTextKept(action, edited_text, proposed_text) ==
    IF action = "edited" THEN edited_text ELSE <<proposed_text>>
\* the webhooks' final_text: the edited text of an edit, the proposed text of
\* an approval, None (<<>>) of a rejection; a text t is <<t>>
FinalText(action, edited_text, proposed_text) ==
    LET final_text == IF action = "edited" THEN edited_text ELSE <<proposed_text>>
    IN  IF action = "rejected" THEN <<>> ELSE final_text

\* decider of a channel reply: Twilio's From, or f"imessage:{from_user}"
DeciderOf(ch) == IF ch = "wa" THEN "whatsapp:from" ELSE "imessage:from"

VerifyWebhookSignatureLax(auth) == auth # "bad"
\* verify_webhook_signature: a missing header, or one that differs from
\* "Bearer <secret>", is refused
VerifyWebhookSignature(auth) == IF auth = "missing" THEN FALSE ELSE auth = "ok"

\* RedisStore.update_state, between its GET and its SETEX: the record read,
\* with the new status and the timestamps that status calls for
UpdatedState(rec, new_state, decider, now) ==
    [rec EXCEPT
       !.status = new_state,
       !.decided_at = IF new_state \in Terminal THEN now ELSE @,
       !.decider = IF new_state \in Terminal /\ decider # "none" THEN decider ELSE @,
       !.prompted_at = IF new_state = "prompted" THEN now ELSE @]

\* save_candidate_state: SETEX of the whole record, whatever is stored
SaveState(id, rec, actor) ==
    /\ grec' = [grec EXCEPT ![id] = rec]
    /\ gterm' = [gterm EXCEPT ![id] =
                   IF @ = "none" /\ grec[id].status \notin Terminal
                                 /\ rec.status \in Terminal
                   THEN actor ELSE @]

GatewayCapUnits == GatewayCapacity * TokenUnit

\* a take() that always grants and debits nothing
TakeOneFree(k, now, rate) ==
    [key |-> Expire(HSet(k, now, GatewayCapUnits, now), now), ok |-> TRUE]

\* TokenBucket.take() of a prompt bucket, the calls of one submission not
\* overlapping any other access to the bucket
TakeOne(k, now, rate) ==
    LET tokens == IF Live(k, now)
                  THEN Min(GatewayCapUnits, k.tokens + (now - k.last_update) * rate)
                  ELSE GatewayCapUnits
        ok == CanTake(tokens, 1)
        left == IF ok THEN tokens - TokenUnit ELSE tokens
    IN  [key |-> Expire(HSet(k, now, left, now), now), ok |-> ok]

\* RateLimiter.enforce_spacing of one channel of the brand
EnforceSpacing(m, now) ==
    IF Live(m, now) /\ TooSoon(now, m.at, GatewayMinSpacingSec)
    THEN [mark |-> m, ok |-> FALSE]
    ELSE [mark |-> SetEx(now, now, GatewayMinSpacingSec), ok |-> TRUE]

IsDuplicateOnceDecided(rec) == rec.status \in Terminal
IsDuplicateAnyRecord(rec) == rec.status # "none"
\* RedisStore.is_duplicate: a record exists and its state is not "new"
IsDuplicate(rec) == rec.status # "none" /\ rec.status # "new"

IdleRc == [pc |-> "idle", id |-> 0, auth |-> "none", created |-> 0,
           can |-> [c \in Chans |-> FALSE], to |-> [c \in Chans |-> FALSE],
           sent |-> {}, copy |-> NoRec, resp |-> "none"]
IdleWh == [pc |-> "idle", id |-> 0, action |-> "none", edited_text |-> <<>>,
           copy |-> NoRec]
IdleSw == [pc |-> "sleep", now0 |-> 0, toscan |-> {}, expired |-> <<>>,
           copy |-> NoRec, wake |-> 0, error |-> FALSE]

\* ---------------------------------------------------------------- POST /candidate
\* the request arrives: signature check, then is_duplicate's GET. Ids are
\* names: a run submits id j+1 only once id j has a record.
RcReceive(id, auth, to) ==
    /\ rc.pc = "idle"
    /\ gcount.submits < lim.submits
    /\ gcount' = [gcount EXCEPT !.submits = @ + 1]
    /\ \A j \in Ids : j < id => grec[j].status # "none"
    /\ rc' = IF ~VerifyWebhookSignature(auth)
             THEN [IdleRc EXCEPT !.resp = "401", !.id = id, !.auth = auth]
             ELSE IF IsDuplicate(grec[id])
             THEN [IdleRc EXCEPT !.resp = "duplicate", !.id = id, !.auth = auth]
             ELSE [IdleRc EXCEPT !.pc = "save", !.id = id, !.auth = auth,
                                 !.created = gnow, !.to = to]
    /\ UNCHANGED <<gnow, grec, grate, gowner, gsent, gbucket, gmark, wh, sw, gdisp, gact, gterm, notG>>

\* save_candidate_state(CandidateState(state="new", created_at=now))
RcSave ==
    /\ rc.pc = "save"
    /\ SaveState(rc.id, [NoRec EXCEPT !.status = "new", !.created_at = rc.created], "rc")
    /\ rc' = [rc EXCEPT !.pc = "take_wa", !.created = 0]
    /\ UNCHANGED <<gnow, grate, gowner, gsent, gbucket, gmark, wh, sw, gdisp, gact, gcount, notG>>

\* the synchronous tail of the gates: the WhatsApp prompt goes out through
\* the blocking Twilio client (an exception is caught), then either the
\* iMessage prompt is awaited or the handler concludes (locals that are
\* not read again are dropped from the state)
RcConclude(r) ==
    IF r.sent # {}
    THEN [r EXCEPT !.pc = "upd_get", !.to = IdleRc.to, !.can = IdleRc.can]
    ELSE [IdleRc EXCEPT !.resp = "rate_limited"]

\* the prompt counts once the handler has moved from r0 to r1
PromptsAfter(r0, r1) ==
    [c \in Chans |-> IF c \in r1.sent \ r0.sent THEN gsent[c] + 1 ELSE gsent[c]]

\* reading candidate.owner_whatsapp / candidate.owner_imessage raises
\* AttributeError when the Candidate model does not declare the field; the
\* read is reached only behind a true can_send_* (short-circuit and)
RcSendPhase(r, wa_ok) ==
    LET r1 == [r EXCEPT !.sent = IF r.can["wa"] /\ r.to["wa"] /\ wa_ok
                                 THEN {"wa"} ELSE {}]
    IN  IF (r.can["wa"] \/ r.can["imsg"]) /\ ~gowner
        THEN [IdleRc EXCEPT !.resp = "500"]
        ELSE IF r1.can["imsg"] /\ r1.to["imsg"]
        THEN [r1 EXCEPT !.pc = "send_imsg", !.to = IdleRc.to]
        ELSE RcConclude(r1)

\* can_send_wa_prompt: bucket.take()
RcTakeWa ==
    /\ rc.pc = "take_wa"
    /\ LET t == TakeOne(gbucket["wa"], gnow, grate) IN
          /\ gbucket' = [gbucket EXCEPT !["wa"] = t.key]
          /\ rc' = [rc EXCEPT !.pc = "take_imsg", !.can["wa"] = t.ok]
    /\ UNCHANGED <<gnow, grec, grate, gowner, gsent, gmark, wh, sw, gdisp, gact, gterm, gcount, notG>>

\* mutant: the iMessage bucket is taken from only when the WhatsApp take
\* was refused
RcTakeImsgUnlessWa ==
    /\ rc.pc = "take_imsg"
    /\ LET t == IF rc.can["wa"] THEN [key |-> gbucket["imsg"], ok |-> FALSE]
                ELSE TakeOne(gbucket["imsg"], gnow, grate)
           r == [rc EXCEPT !.can["imsg"] = t.ok] IN
          /\ gbucket' = [gbucket EXCEPT !["imsg"] = t.key]
          /\ \E wa_ok \in BOOLEAN :
                rc' = IF r.can["wa"] THEN [r EXCEPT !.pc = "space_wa"]
                      ELSE IF r.can["imsg"] THEN [r EXCEPT !.pc = "space_imsg"]
                      ELSE RcSendPhase(r, wa_ok)
    /\ gsent' = PromptsAfter(rc, rc')
    /\ UNCHANGED <<gnow, grec, grate, gowner, gmark, wh, sw, gdisp, gact, gterm, gcount, notG>>

\* can_send_imsg_prompt: bucket.take(); spacing is awaited only for a
\* channel whose take succeeded
RcTakeImsg ==
    /\ rc.pc = "take_imsg"
    /\ LET t == TakeOne(gbucket["imsg"], gnow, grate)
           r == [rc EXCEPT !.can["imsg"] = t.ok] IN
          /\ gbucket' = [gbucket EXCEPT !["imsg"] = t.key]
          /\ \E wa_ok \in BOOLEAN :
                rc' = IF r.can["wa"] THEN [r EXCEPT !.pc = "space_wa"]
                      ELSE IF r.can["imsg"] THEN [r EXCEPT !.pc = "space_imsg"]
                      ELSE RcSendPhase(r, wa_ok)
    /\ gsent' = PromptsAfter(rc, rc')
    /\ UNCHANGED <<gnow, grec, grate, gowner, gmark, wh, sw, gdisp, gact, gterm, gcount, notG>>

\* enforce_spacing(f"wa:{brand_id}")
RcSpaceWa ==
    /\ rc.pc = "space_wa"
    /\ LET e == EnforceSpacing(gmark["wa"], gnow)
           r == [rc EXCEPT !.can["wa"] = e.ok] IN
          /\ gmark' = [gmark EXCEPT !["wa"] = e.mark]
          /\ \E wa_ok \in BOOLEAN :
                rc' = IF r.can["imsg"] THEN [r EXCEPT !.pc = "space_imsg"]
                      ELSE RcSendPhase(r, wa_ok)
    /\ gsent' = PromptsAfter(rc, rc')
    /\ UNCHANGED <<gnow, grec, grate, gowner, gbucket, wh, sw, gdisp, gact, gterm, gcount, notG>>

\* enforce_spacing(f"imsg:{brand_id}")
RcSpaceImsg ==
    /\ rc.pc = "space_imsg"
    /\ LET e == EnforceSpacing(gmark["imsg"], gnow)
           r == [rc EXCEPT !.can["imsg"] = e.ok] IN
          /\ gmark' = [gmark EXCEPT !["imsg"] = e.mark]
          /\ \E wa_ok \in BOOLEAN : rc' = RcSendPhase(r, wa_ok)
    /\ gsent' = PromptsAfter(rc, rc')
    /\ UNCHANGED <<gnow, grec, grate, gowner, gbucket, wh, sw, gdisp, gact, gterm, gcount, notG>>

\* await imsg_client.send_approval_prompt: sent, or failed and caught
RcSendImsg ==
    /\ rc.pc = "send_imsg"
    /\ \E ok \in BOOLEAN :
          rc' = RcConclude([rc EXCEPT !.sent = IF ok THEN @ \cup {"imsg"} ELSE @])
    /\ gsent' = PromptsAfter(rc, rc')
    /\ UNCHANGED <<gnow, grec, grate, gowner, gbucket, gmark, wh, sw, gdisp, gact, gterm, gcount, notG>>

\* update_state(id, "prompted"): its GET (a missing record ends the call)
RcUpdGet ==
    /\ rc.pc = "upd_get"
    /\ rc' = IF grec[rc.id].status = "none"
             THEN [IdleRc EXCEPT !.resp = "prompted"]
             ELSE [rc EXCEPT !.pc = "upd_save",
                             !.copy = UpdatedState(grec[rc.id], "prompted", "none", gnow)]
    /\ UNCHANGED <<gnow, grec, grate, gowner, gsent, gbucket, gmark, wh, sw, gdisp, gact, gterm, gcount, notG>>

\* update_state(id, "prompted"): its SETEX; the handler answers "prompted"
RcUpdSave ==
    /\ rc.pc = "upd_save"
    /\ SaveState(rc.id, rc.copy, "rc")
    /\ rc' = [IdleRc EXCEPT !.resp = "prompted"]
    /\ UNCHANGED <<gnow, grate, gowner, gsent, gbucket, gmark, wh, sw, gdisp, gact, gcount, notG>>

\* ------------------------------------------- POST /webhooks/whatsapp, /imessage
\* a message arrives; cmd and edited_text are what the channel's parser made
\* of it ("nocmd": no command). get_candidate_state, then the checks on the
\* state read.
WhArriveText(ch, id, cmd, edited_text) ==
    /\ wh[ch].pc = "idle"
    /\ gcount.replies < lim.replies
    /\ gcount' = [gcount EXCEPT !.replies = @ + 1]
    /\ wh' = [wh EXCEPT ![ch] =
                IF cmd = "nocmd" \/ grec[id].status \notin {"new", "prompted"}
                THEN IdleWh
                ELSE [IdleWh EXCEPT !.pc = "upd_get", !.id = id, !.action = cmd,
                                     !.edited_text = edited_text]]
    /\ UNCHANGED <<gnow, grec, grate, gowner, gsent, gbucket, gmark, rc, sw, gdisp, gact, gterm>>
    /\ UNCHANGED <<bvars, svars, ovars, lim, kv, avars, gpost, glife>>

\* an approve or a skip: the parser's edited_text is None
WhArrive(ch, id, cmd) == WhArriveText(ch, id, cmd, <<>>)

\* the same, the text of the message left out of the state
WhReceive(ch, id, cmd) == WhArrive(ch, id, cmd) /\ UNCHANGED msg

\* what the parsers return for the replies of a run: action and edited_text,
\* which is None but for an edit, whose text may be empty ("edit <id>:")
ParsedReplies ==
    {<<"approved", <<>>>>, <<"rejected", <<>>>>,
     <<"edited", << <<>> >> >>, <<"edited", << <<"o", "k">> >> >>}

\* a message arrives that the channel's parser read as the given command
WhCommand(ch, id, p) == WhArriveText(ch, id, p[1], p[2]) /\ UNCHANGED msg

\* update_state(id, action, decider): its GET
WhUpdGet(ch) ==
    /\ wh[ch].pc = "upd_get"
    /\ wh' = [wh EXCEPT ![ch] =
                IF grec[wh[ch].id].status = "none"
                THEN [@ EXCEPT !.pc = "send"]
                ELSE [@ EXCEPT !.pc = "upd_save",
                               !.copy = UpdatedState(grec[wh[ch].id], wh[ch].action,
                                                     DeciderOf(ch), gnow)]]
    /\ UNCHANGED <<gnow, grec, grate, gowner, gsent, gbucket, gmark, rc, sw, gdisp, gact, gterm, gcount, notG>>

\* update_state(id, action, decider): its SETEX
WhUpdSave(ch) ==
    /\ wh[ch].pc = "upd_save"
    /\ SaveState(wh[ch].id, wh[ch].copy, ch)
    /\ wh' = [wh EXCEPT ![ch].pc = "send"]
    /\ UNCHANGED <<gnow, grate, gowner, gsent, gbucket, gmark, rc, sw, gdisp, gact, gcount, notG>>

\* send_decision_to_core(Decision(...)): one POST, its failure swallowed
WhSend(ch) ==
    /\ wh[ch].pc = "send"
    /\ gdisp' = [gdisp EXCEPT ![wh[ch].id] =
                   Append(@, [decision |-> wh[ch].action,
                              final_text |-> FinalText(wh[ch].action,
                                                       wh[ch].edited_text,
                                                       ProposedText),
                              decider |-> DeciderOf(ch)])]
    /\ wh' = [wh EXCEPT ![ch].pc = "log"]
    /\ UNCHANGED <<gnow, grec, grate, gowner, gsent, gbucket, gmark, rc, sw, gact, gterm, gcount, notG>>

\* how a POST of send_decision_to_core ends: a 2xx response; a response that
\* raise_for_status turns into httpx.HTTPStatusError; a network failure
\* (httpx.TransportError); an exception that is no httpx.HTTPError
PostOutcomes == {"2xx", "non2xx", "network", "other"}

CaughtNothing(outcome) == FALSE
\* except httpx.HTTPError: printed, and send_decision_to_core returns
Caught(outcome) == outcome \in {"non2xx", "network"}

\* send_decision_to_core returns to its caller
PostReturns(outcome) == outcome = "2xx" \/ Caught(outcome)

\* send_decision_to_core, its end observed: one POST; an exception it does
\* not catch leaves the handler (HTTP 500)
WhPost(ch, outcome) ==
    /\ wh[ch].pc = "send"
    /\ gdisp' = [gdisp EXCEPT ![wh[ch].id] =
                   Append(@, [decision |-> wh[ch].action,
                              final_text |-> FinalText(wh[ch].action,
                                                       wh[ch].edited_text,
                                                       ProposedText),
                              decider |-> DeciderOf(ch)])]
    /\ gpost' = [gpost EXCEPT ![wh[ch].id] = Append(@, outcome)]
    /\ wh' = [wh EXCEPT ![ch] = IF PostReturns(outcome) THEN [@ EXCEPT !.pc = "log"]
                                ELSE IdleWh]
    /\ UNCHANGED <<gnow, grec, grate, gowner, gsent, gbucket, gmark, rc, sw, gact, gterm, gcount>>
    /\ UNCHANGED <<bvars, svars, ovars, lim, kv, msg, avars, glife>>

\* log_activity(brand_id, ActivityEntry(...)); the handler answers "processed"
WhLog(ch) ==
    /\ wh[ch].pc = "log"
    /\ gact' = [gact EXCEPT ![wh[ch].id] = @ + 1]
    /\ wh' = [wh EXCEPT ![ch] = IdleWh]
    /\ UNCHANGED <<gnow, grec, grate, gowner, gsent, gbucket, gmark, rc, sw, gdisp, gterm, gcount, notG>>

\* ----------------------------------------------------------- check_timeouts
SwSleep(s) == [IdleSw EXCEPT !.wake = gnow + SweepIntervalSec]

LoopCatchesNothing(exc) == FALSE
LoopCatchesAll(exc) == TRUE
\* except Exception as e, around the body of the while loop: an
\* asyncio.CancelledError is a BaseException and passes it
LoopCatches(exc) == exc = "Exception"

\* an exception is thrown at the await the task is suspended in: the except
\* branch prints it and sleeps, or the task ends where it is
SwThrown(exc) ==
    IF LoopCatches(exc) THEN [SwSleep(sw) EXCEPT !.error = TRUE]
    ELSE [sw EXCEPT !.pc = "ended"]

\* the sleep is over: get_expired_candidates takes now and its SCAN
\* returns the cr:*:state keys that exist
SwBegin ==
    /\ sw.pc = "sleep"
    /\ gnow >= sw.wake
    /\ gcount.sweeps < lim.sweeps
    /\ gcount' = [gcount EXCEPT !.sweeps = @ + 1]
    /\ LET keys == {i \in Ids : grec[i].status # "none"} IN
       sw' = IF keys = {} THEN SwSleep(sw)
             ELSE [IdleSw EXCEPT !.pc = "scan", !.now0 = gnow, !.toscan = keys]
    /\ UNCHANGED <<gnow, grec, grate, gowner, gsent, gbucket, gmark, rc, wh, gdisp, gact, gterm, notG>>

IsExpiredLate(rec, now) ==
    rec.status = "prompted" /\ now - rec.created_at > DeadlineSec
\* get_expired_candidates: state.state == "prompted" and
\* (now - state.created_at).total_seconds() >= state.candidate.deadline_sec
IsExpired(rec, now) ==
    rec.status = "prompted" /\ now - rec.created_at >= DeadlineSec

\* get_expired_candidates: GET of one scanned key; a prompted record past
\* its deadline joins the list. After the last key the loop over the list
\* starts, or the task sleeps.
SwRead(id) ==
    /\ sw.pc = "scan"
    /\ id \in sw.toscan
    /\ LET due == IsExpired(grec[id], sw.now0)
           exp == IF due THEN Append(sw.expired, id) ELSE sw.expired
           rest == sw.toscan \ {id}
       IN  sw' = IF rest # {} THEN [sw EXCEPT !.toscan = rest, !.expired = exp]
                 ELSE IF exp = <<>> THEN SwSleep(sw)
                 ELSE [sw EXCEPT !.toscan = rest, !.expired = exp, !.pc = "upd_get"]
    /\ UNCHANGED <<gnow, grec, grate, gowner, gsent, gbucket, gmark, rc, wh, gdisp, gact, gterm, gcount, notG>>

\* update_state(id, "expired"): its GET
SwUpdGet ==
    /\ sw.pc = "upd_get"
    /\ LET id == Head(sw.expired) IN
       sw' = IF grec[id].status = "none"
             THEN [sw EXCEPT !.pc = "send"]
             ELSE [sw EXCEPT !.pc = "upd_save",
                             !.copy = UpdatedState(grec[id], "expired", "none", gnow)]
    /\ UNCHANGED <<gnow, grec, grate, gowner, gsent, gbucket, gmark, rc, wh, gdisp, gact, gterm, gcount, notG>>

\* update_state(id, "expired"): its SETEX
SwUpdSave ==
    /\ sw.pc = "upd_save"
    /\ SaveState(Head(sw.expired), sw.copy, "sweeper")
    /\ sw' = [sw EXCEPT !.pc = "send", !.copy = NoRec]
    /\ UNCHANGED <<gnow, grate, gowner, gsent, gbucket, gmark, rc, wh, gdisp, gact, gcount, notG>>

\* send_decision_to_core(Decision(decision="expired", decider="system:timeout"))
SwSend ==
    /\ sw.pc = "send"
    /\ gdisp' = [gdisp EXCEPT ![Head(sw.expired)] =
                   Append(@, [decision |-> "expired", final_text |-> <<>>,
                              decider |-> "system:timeout"])]
    /\ sw' = [sw EXCEPT !.pc = "log"]
    /\ UNCHANGED <<gnow, grec, grate, gowner, gsent, gbucket, gmark, rc, wh, gact, gterm, gcount, notG>>

\* the same, its end observed; an exception it does not catch ends the sweep
SwPost(outcome) ==
    /\ sw.pc = "send"
    /\ gdisp' = [gdisp EXCEPT ![Head(sw.expired)] =
                   Append(@, [decision |-> "expired", final_text |-> <<>>,
                              decider |-> "system:timeout"])]
    /\ gpost' = [gpost EXCEPT ![Head(sw.expired)] = Append(@, outcome)]
    /\ sw' = IF PostReturns(outcome) THEN [sw EXCEPT !.pc = "log"]
             ELSE SwThrown("Exception")
    /\ UNCHANGED <<gnow, grec, grate, gowner, gsent, gbucket, gmark, rc, wh, gact, gterm, gcount>>
    /\ UNCHANGED <<bvars, svars, ovars, lim, kv, msg, avars, glife>>

\* log_activity; then the next record of the list, or asyncio.sleep(10)
SwLog ==
    /\ sw.pc = "log"
    /\ gact' = [gact EXCEPT ![Head(sw.expired)] = @ + 1]
    /\ sw' = IF Tail(sw.expired) = <<>> THEN SwSleep(sw)
             ELSE [sw EXCEPT !.pc = "upd_get", !.expired = Tail(@)]
    /\ UNCHANGED <<gnow, grec, grate, gowner, gsent, gbucket, gmark, rc, wh, gdisp, gterm, gcount, notG>>

\* an awaited call of the loop body raises: a GET of get_expired_candidates,
\* update_state's GET or SETEX, log_activity, or send_decision_to_core with
\* an exception that is not an httpx.HTTPError (the only kind it catches).
\* Nothing is written; the except branch around the whole loop prints the
\* error and sleeps.
SwRaise ==
    /\ sw.pc \in {"scan", "upd_get", "upd_save", "send", "log"}
    /\ sw' = SwThrown("Exception")
    /\ UNCHANGED <<gnow, grec, grate, gowner, gsent, gbucket, gmark, rc, wh, gdisp, gact, gterm, gcount, notG>>

\* ---------------------------------------------------- lifespan, shutdown
\* the application shuts down: timeout_checker_task.cancel()
Shutdown ==
    /\ glife = "running"
    /\ glife' = "cancelling"
    /\ UNCHANGED <<bvars, svars, gvars, ovars, lim, kv, msg, avars, gpost>>

\* the CancelledError is thrown into the task at the await it is suspended
\* in (a finished task is left alone); lifespan awaits the task
SwCancel ==
    /\ glife = "cancelling"
    /\ glife' = "draining"
    /\ sw' = IF sw.pc = "ended" THEN sw ELSE SwThrown("CancelledError")
    /\ UNCHANGED <<gnow, grec, grate, gowner, gsent, gbucket, gmark, rc, wh, gdisp, gact, gterm, gcount>>
    /\ UNCHANGED <<bvars, svars, ovars, lim, kv, msg, avars, gpost>>

\* 'await task' returns with the CancelledError, which lifespan passes over;
\* close_store() follows
LifespanClose ==
    /\ glife = "draining"
    /\ sw.pc = "ended"
    /\ glife' = "closed"
    /\ UNCHANGED <<bvars, svars, gvars, ovars, lim, kv, msg, avars, gpost>>

\* one sweep interval of wall-clock time passes
GTick ==
    /\ gnow < lim.ticks * SweepIntervalSec
    /\ gnow' = gnow + SweepIntervalSec
    /\ UNCHANGED <<grec, grate, gowner, gsent, gbucket, gmark, rc, wh, sw, gdisp, gact, gterm, gcount, notG>>

GatewayRest ==
    /\ gnow = 0
    /\ grec = [i \in Ids |-> NoRec]
    /\ gbucket = [c \in Chans |-> NoKey]
    /\ gmark = [c \in Chans |-> NoMark]
    /\ gsent = [c \in Chans |-> 0]
    /\ rc = IdleRc
    /\ wh = [c \in Chans |-> IdleWh]
    /\ sw = IdleSw
    /\ gdisp = [i \in Ids |-> <<>>]
    /\ gact = [i \in Ids |-> 0]
    /\ gterm = [i \in Ids |-> "none"]
    /\ gcount = [submits |-> 0, replies |-> 0, sweeps |-> 0]

GatewayIdle == gowner = FALSE /\ grate = 0 /\ GatewayRest

\* the gateway after lifespan's startup: empty store, sweeper task created.
\* models.py of src/approval-gateway declares no owner_whatsapp and no
\* owner_imessage on Candidate, while receive_candidate, the orchestrator's
\* payload and tools/test_whatsapp.py use them: both builds are covered.
GatewayInit == gowner \in BOOLEAN /\ grate = 0 /\ GatewayRest

\* what the channel parsers make of the replies of a run: an approval, a
\* rejection, no command (an edit takes the path of an approval)
ReplyInputs == {"approved", "rejected", "nocmd"}

\* Authorization headers of a request: the expected bearer value, another
\* value, no header
Auths == {"ok", "bad", "missing"}

\* authorized submissions, channel replies and the sweeper
GatewayNext ==
    \/ \E id \in Ids : \E to \in [Chans -> BOOLEAN] : RcReceive(id, "ok", to)
    \/ RcSave
    \/ RcTakeWa
    \/ RcTakeImsg
    \/ RcSpaceWa
    \/ RcSpaceImsg
    \/ RcSendImsg
    \/ RcUpdGet
    \/ RcUpdSave
    \/ \E ch \in Chans : \E id \in Ids : \E cmd \in ReplyInputs :
          WhReceive(ch, id, cmd)
    \/ \E ch \in Chans : WhUpdGet(ch)
    \/ \E ch \in Chans : WhUpdSave(ch)
    \/ \E ch \in Chans : WhSend(ch)
    \/ \E ch \in Chans : WhLog(ch)
    \/ SwBegin
    \/ \E id \in Ids : SwRead(id)
    \/ SwUpdGet
    \/ SwUpdSave
    \/ SwSend
    \/ SwLog
    \/ GTick

(***************************************************************************)
(* RateLimiter: the Redis keys of the prompt buckets and spacing marks of  *)
(* several brands (rate_limit.py, receive_candidate of main.py)            *)
(***************************************************************************)
\* brand ids of the candidates submitted
Brands == {"b1", "b2"}

\* mutant: one bucket per channel, whatever the brand
BucketNamePerChannel(ch, brand_id) == <<ch, "prompt">>
\* can_send_wa_prompt: f"wa:prompt:{brand_id}", can_send_imsg_prompt:
\* f"imsg:prompt:{brand_id}"; a name is the sequence of its parts
BucketName(ch, brand_id) == <<ch, "prompt", brand_id>>
\* TokenBucket.key = f"bucket:{name}"
BucketKey(name) == <<"bucket">> \o name
\* receive_candidate: f"wa:{candidate.brand_id}", f"imsg:{candidate.brand_id}"
SpacingName(ch, brand_id) == <<ch, brand_id>>
\* enforce_spacing: f"spacing:{key}"
SpacingKey(key) == <<"spacing">> \o key

\* Redis: the value read under a key, none for a key that does not exist,
\* and the database after a write to a key
Stored(db, key, none) == IF key \in DOMAIN db THEN db[key] ELSE none
Store(db, key, value) ==
    [k \in DOMAIN db \cup {key} |-> IF k = key THEN value ELSE db[k]]

NoCall == [op |-> "none", brand |-> "none", ch |-> "none", ok |-> FALSE]
KeysIdle ==
    kv = [db |-> <<>>,
          takes |-> [x \in Brands \X Chans |-> 0],
          grants |-> [x \in Brands \X Chans |-> 0],
          calls |-> 0,
          last |-> NoCall]
notK == <<bvars, svars, gvars, ovars, lim, msg, avars, gpost, glife>>

\* can_send_wa_prompt(brand_id) / can_send_imsg_prompt(brand_id): get_bucket
\* of the brand's name for the channel, then bucket.take()
KTake(brand, ch) ==
    /\ kv.calls < lim.submits
    /\ LET key == BucketKey(BucketName(ch, brand))
           t == TakeOne(Stored(kv.db, key, NoKey), gnow, grate)
       IN  kv' = [kv EXCEPT !.db = Store(@, key, t.key),
                            !.takes[<<brand, ch>>] = @ + 1,
                            !.grants[<<brand, ch>>] = @ + (IF t.ok THEN 1 ELSE 0),
                            !.calls = @ + 1,
                            !.last = [op |-> "take", brand |-> brand, ch |-> ch,
                                      ok |-> t.ok]]
    /\ UNCHANGED notK

\* enforce_spacing(f"<ch>:{brand_id}", settings.min_spacing_sec): the mark is
\* written only by a call that returns True
KSpace(brand, ch) ==
    /\ kv.calls < lim.submits
    /\ LET key == SpacingKey(SpacingName(ch, brand))
           e == EnforceSpacing(Stored(kv.db, key, NoMark), gnow)
       IN  kv' = [kv EXCEPT !.db = IF e.ok THEN Store(@, key, e.mark) ELSE @,
                            !.calls = @ + 1,
                            !.last = [op |-> "space", brand |-> brand, ch |-> ch,
                                      ok |-> e.ok]]
    /\ UNCHANGED notK

(***************************************************************************)
(* Agent orchestrator: PENDING_DECISIONS, node_submit_for_approval,        *)
(* node_wait_for_decisions, receive_decision (agent-orchestrator/main.py)  *)
(***************************************************************************)
\* candidate ids of the run, one per platform, in the order of state["drafts"]
Cands == 1..NPlatforms
\* an id no run has registered
UnknownId == 0
\* DecisionPayload bodies a caller of POST /decisions may send
Payloads ==
    {[decision |-> "approved", final_text |-> <<ProposedText>>,
      decider |-> "whatsapp:from", latency_ms |-> 1000],
     [decision |-> "rejected", final_text |-> <<>>,
      decider |-> "imessage:from", latency_ms |-> 1000],
     [decision |-> "expired", final_text |-> <<>>,
      decider |-> "system:timeout", latency_ms |-> DeadlineSec * 1000]}
NoPayload == [decision |-> "none", final_text |-> <<>>, decider |-> "none",
              latency_ms |-> 0]
TimeoutPayloadElapsed ==
    [decision |-> "expired", final_text |-> <<>>, decider |-> "system:timeout",
     latency_ms |-> ApprovalTimeoutSec * 1000]
\* the payload node_wait_for_decisions makes up on asyncio.TimeoutError
TimeoutPayload ==
    [decision |-> "expired", final_text |-> <<>>, decider |-> "system:timeout",
     latency_ms |-> 0]

\* PENDING_DECISIONS.get(id): no entry, or an asyncio.Future
NoFuture == [state |-> "absent", result |-> NoPayload]
NewFuture == [state |-> "pending", result |-> NoPayload]

\* verify_decision_signature
VerifyDecisionSignature(secret_set, auth) ==
    IF ~secret_set THEN TRUE
    ELSE IF auth = "missing" THEN FALSE
    ELSE auth = "ok"

DoneOnlyWithResult(f) == f.state = "done"
\* Future.done(): a result was set, or the future was cancelled
Done(f) == f.state \in {"done", "cancelled"}
CanResolveAnyFuture(f) == f.state # "absent"
CanResolveUnlessDone(f) == ~Done(f)
\* receive_decision: future and not future.done()
CanResolve(f) == f.state # "absent" /\ ~Done(f)

\* post_results[platform] before node_execute_tools reaches the platform
NoResult == [skipped |-> FALSE, reason |-> "none", prompt |-> <<>>, outcome |-> "none"]
IdleRun == [pc |-> "idle", k |-> 0, since |-> 0, decisions |-> [c \in Cands |-> NoPayload],
            require_approval |-> TRUE, post_results |-> [c \in Cands |-> NoResult]]

\* run_graph reaches node_submit_for_approval
OStart ==
    /\ orun.pc = "idle"
    /\ lim.platforms >= 1
    /\ orun' = [orun EXCEPT !.pc = "register", !.k = 1]
    /\ UNCHANGED <<osecret, ofut, olast, ofirst, ocount, notO>>

ORegisterNothing ==
    /\ orun.pc = "register"
    /\ orun' = [orun EXCEPT !.pc = "send"]
    /\ UNCHANGED <<osecret, ofut, olast, ofirst, ocount, notO>>
\* PENDING_DECISIONS[candidate_id] = create_future(); send_candidate is awaited
ORegister ==
    /\ orun.pc = "register"
    /\ ofut' = [ofut EXCEPT ![orun.k] = NewFuture]
    /\ orun' = [orun EXCEPT !.pc = "send"]
    /\ UNCHANGED <<osecret, olast, ofirst, ocount, notO>>

\* send_candidate returns, or raises after its retries and the run fails;
\* after the last platform node_wait_for_decisions takes the first future
OSent ==
    /\ orun.pc = "send"
    /\ \E ok \in BOOLEAN :
          orun' = IF ~ok THEN [orun EXCEPT !.pc = "failed"]
                  ELSE IF orun.k < lim.platforms
                  THEN [orun EXCEPT !.pc = "register", !.k = @ + 1]
                  ELSE [orun EXCEPT !.pc = "wait", !.k = 1, !.since = gnow]
    /\ UNCHANGED <<osecret, ofut, olast, ofirst, ocount, notO>>

ONextWait(r) ==
    IF r.k < lim.platforms THEN [r EXCEPT !.k = @ + 1, !.since = gnow]
    ELSE [r EXCEPT !.pc = "done"]

\* asyncio.wait_for(future, timeout) returns the future's result
OWaitResult ==
    /\ orun.pc = "wait"
    /\ ofut[orun.k].state = "done"
    /\ orun' = ONextWait([orun EXCEPT !.decisions[orun.k] = ofut[orun.k].result])
    /\ UNCHANGED <<osecret, ofut, olast, ofirst, ocount, notO>>

\* asyncio.wait_for times out: it cancels the future, and the node makes up
\* an expired decision
OWaitTimeout ==
    /\ orun.pc = "wait"
    /\ ofut[orun.k].state = "pending"
    /\ ofut' = [ofut EXCEPT ![orun.k].state = "cancelled"]
    /\ orun' = ONextWait([orun EXCEPT !.decisions[orun.k] = TimeoutPayload])
    /\ UNCHANGED <<osecret, olast, ofirst, ocount, notO>>

\* ---- node_execute_tools
\* DecisionPayload bodies with the other values its fields take: an edit
\* with the owner's text, an approval without final_text
OwnersText == <<"o", "k">>
ExecPayloads ==
    Payloads \cup
    {[decision |-> "edited", final_text |-> <<OwnersText>>,
      decider |-> "whatsapp:from", latency_ms |-> 1000],
     [decision |-> "approved", final_text |-> <<>>,
      decider |-> "imessage:from", latency_ms |-> 1000]}

\* run_graph with require_approval false: node_submit_for_approval returns
\* {"candidate_ids": {}}, node_wait_for_decisions {"decisions": {}}, and the
\* graph goes on to node_execute_tools
OStartWithout ==
    /\ orun.pc = "idle"
    /\ lim.platforms >= 1
    /\ orun' = [orun EXCEPT !.pc = "execute", !.k = 1, !.require_approval = FALSE]
    /\ UNCHANGED <<osecret, ofut, olast, ofirst, ocount, notO>>

\* node_wait_for_decisions has returned: the graph goes on to
\* node_execute_tools
OBeginExecute ==
    /\ orun.pc = "done"
    /\ orun' = [orun EXCEPT !.pc = "execute", !.k = 1]
    /\ UNCHANGED <<osecret, ofut, olast, ofirst, ocount, notO>>

\* mutant: only a rejection keeps a platform from being published on
SkipsOnlyRejected(require_approval, decision) ==
    require_approval /\ decision # NoPayload /\ decision.decision = "rejected"
\* require_approval and decision, and decision["decision"] in
\* ("rejected", "expired")
Skips(require_approval, decision) ==
    require_approval /\ decision # NoPayload
        /\ decision.decision \in {"rejected", "expired"}

\* final_text = decision.get("final_text") or draft; the draft without a
\* decision or without require_approval
PublishedText(require_approval, decision, draft) ==
    IF require_approval /\ decision # NoPayload /\ decision.final_text # <<>>
    THEN decision.final_text[1]
    ELSE draft

ONextPlatform(r) ==
    IF r.k < lim.platforms THEN [r EXCEPT !.k = @ + 1, !.pc = "execute"]
    ELSE [r EXCEPT !.pc = "executed"]

\* one platform of the loop, up to its skip or to llm.ainvoke([prompt])
OExecutePlatform ==
    /\ orun.pc = "execute"
    /\ LET decision == orun.decisions[orun.k]
       IN  orun' = IF Skips(orun.require_approval, decision)
                   THEN ONextPlatform([orun EXCEPT !.post_results[orun.k] =
                            [skipped |-> TRUE, reason |-> decision.decision,
                             prompt |-> <<>>, outcome |-> "none"]])
                   ELSE [orun EXCEPT !.pc = "llm",
                            !.post_results[orun.k].prompt =
                                <<PublishedText(orun.require_approval, decision,
                                                ProposedText)>>]
    /\ UNCHANGED <<osecret, ofut, olast, ofirst, ocount, notO>>

\* the model's answer and the tool call: the post is made, the model calls
\* no tool, or a call raises and the run fails
OExecuteTool ==
    /\ orun.pc = "llm"
    /\ \E outcome \in {"posted", "model_did_not_call_tool", "raised"} :
          orun' = IF outcome = "raised" THEN [orun EXCEPT !.pc = "failed"]
                  ELSE ONextPlatform([orun EXCEPT !.post_results[orun.k].outcome = outcome])
    /\ UNCHANGED <<osecret, ofut, olast, ofirst, ocount, notO>>

\* POST /decisions
ReceiveDecision(id, payload, auth) ==
    /\ ocount < lim.deliveries
    /\ ocount' = ocount + 1
    /\ LET verified == VerifyDecisionSignature(osecret, auth)
           future == IF id \in Cands THEN ofut[id] ELSE NoFuture
           resolves == verified /\ CanResolve(future)
       IN  /\ ofut' = IF resolves
                      THEN [ofut EXCEPT ![id] = [state |-> "done", result |-> payload]]
                      ELSE ofut
           /\ olast' = [id |-> id, payload |-> payload, auth |-> auth,
                        resp |-> IF ~verified THEN "401"
                                 ELSE IF resolves THEN "ok" ELSE "ignored"]
           /\ ofirst' = IF verified /\ id \in Cands /\ future.state = "pending"
                           /\ ofirst[id] = NoPayload
                        THEN [ofirst EXCEPT ![id] = payload]
                        ELSE ofirst
    /\ UNCHANGED <<osecret, orun, notO>>

NoDelivery == [id |-> UnknownId, payload |-> NoPayload, auth |-> "none",
               resp |-> "none"]

OrchIdle ==
    /\ osecret = TRUE
    /\ ofut = [c \in Cands |-> NoFuture]
    /\ orun = IdleRun
    /\ olast = NoDelivery
    /\ ofirst = [c \in Cands |-> NoPayload]
    /\ ocount = 0

\* the orchestrator after startup, its decision secret configured or empty
OrchInit ==
    /\ osecret \in BOOLEAN
    /\ ofut = [c \in Cands |-> NoFuture]
    /\ orun = IdleRun
    /\ olast = NoDelivery
    /\ ofirst = [c \in Cands |-> NoPayload]
    /\ ocount = 0

OrchNext ==
    \/ OStart
    \/ ORegister
    \/ OSent
    \/ OWaitResult
    \/ OWaitTimeout
    \/ \E id \in Cands \cup {UnknownId} : \E payload \in Payloads :
          \E auth \in {"ok", "bad", "missing"} : ReceiveDecision(id, payload, auth)

(***************************************************************************)
(* Channel command parsers: parse_whatsapp_command (whatsapp.py) and       *)
(* parse_imessage_command (imessage.py). A text is a sequence of           *)
(* characters.                                                             *)
(***************************************************************************)
WhiteSpace == {" ", "\t", "\n"}
LowerCase == <<"a", "c", "d", "e", "g", "i", "k", "o", "p", "r", "s", "t", "v", "x">>
UpperCase == <<"A", "C", "D", "E", "G", "I", "K", "O", "P", "R", "S", "T", "V", "X">>
Digits == {"1", "2"}
Letters == {LowerCase[i] : i \in DOMAIN LowerCase} \cup {UpperCase[i] : i \in DOMAIN UpperCase}

SetMin(S) == CHOOSE i \in S : \A j \in S : i <= j

\* str.lower() and str.upper(), character by character
lower1(c) ==
    IF \E i \in DOMAIN UpperCase : UpperCase[i] = c
    THEN LowerCase[CHOOSE i \in DOMAIN UpperCase : UpperCase[i] = c] ELSE c
upper1(c) ==
    IF \E i \in DOMAIN LowerCase : LowerCase[i] = c
    THEN UpperCase[CHOOSE i \in DOMAIN LowerCase : LowerCase[i] = c] ELSE c
lower(s) == [i \in DOMAIN s |-> lower1(s[i])]

\* str.lstrip(), str.rstrip() and str.strip()
RECURSIVE lstrip(_)
lstrip(s) ==
    IF s # <<>> /\ Head(s) \in WhiteSpace THEN lstrip(Tail(s)) ELSE s
RECURSIVE rstrip(_)
rstrip(s) ==
    IF s # <<>> /\ s[Len(s)] \in WhiteSpace
    THEN rstrip(SubSeq(s, 1, Len(s) - 1)) ELSE s
strip(s) == rstrip(lstrip(s))

\* mutant: every text starts with every prefix
startswith_anything(s, prefix) == TRUE

startswith(s, prefix) ==
    Len(s) >= Len(prefix) /\ SubSeq(s, 1, Len(prefix)) = prefix

\* str.split(maxsplit=1): the first word, and what follows the run of
\* whitespace after it
split_maxsplit1(s) ==
    LET t == lstrip(s)
        ws == {i \in DOMAIN t : t[i] \in WhiteSpace} IN
    IF t = <<>> THEN <<>>
    ELSE IF ws = {} THEN <<t>>
    ELSE LET rest == lstrip(SubSeq(t, SetMin(ws), Len(t))) IN
         IF rest = <<>> THEN <<SubSeq(t, 1, SetMin(ws) - 1)>>
         ELSE <<SubSeq(t, 1, SetMin(ws) - 1), rest>>

KwApprove == <<"a", "p", "p", "r", "o", "v", "e">>
KwSkip == <<"s", "k", "i", "p">>
KwEdit == <<"e", "d", "i", "t">>
MaxEditLen == 200

\* the dict a parser returns; edited_text is <<>> for None and <<text>> for
\* a text. NoCommand: the parser returned None.
Command(action, candidate_id, edited_text) ==
    [action |-> action, candidate_id |-> candidate_id, edited_text |-> edited_text]
NoCommand == Command("none", <<>>, <<>>)

\* if len(edited_text) > 200: edited_text = edited_text[:200]
Truncate(t) == IF Len(t) > MaxEditLen THEN SubSeq(t, 1, MaxEditLen) ELSE t

parse_whatsapp_command(text0) ==
    LET text == strip(text0)
        low == lower(text)
        parts == split_maxsplit1(text)
    IN  IF startswith(low, KwApprove \o <<" ">>)
        THEN IF Len(parts) = 2
             THEN Command("approved", strip(parts[2]), <<>>) ELSE NoCommand
        ELSE IF startswith(low, KwSkip \o <<" ">>)
        THEN IF Len(parts) = 2
             THEN Command("rejected", strip(parts[2]), <<>>) ELSE NoCommand
        ELSE IF startswith(low, KwEdit \o <<" ">>)
        THEN LET rest == strip(SubSeq(text, 6, Len(text)))
                 colons == {i \in DOMAIN rest : rest[i] = ":"} IN
             IF colons # {}
             THEN Command("edited",
                          strip(SubSeq(rest, 1, SetMin(colons) - 1)),
                          <<Truncate(strip(SubSeq(rest, SetMin(colons) + 1, Len(rest))))>>)
             ELSE NoCommand
        ELSE NoCommand

\* [A-Za-z0-9_]
IdChar(c) == c \in Letters \cup Digits \cup {"_"}

\* what follows keyword\s+ at the start of the text, matched ignoring
\* case; <<>> when the text does not start that way
AfterKeyword(text, kw) ==
    LET after == SubSeq(text, Len(kw) + 1, Len(text))
        nb == {i \in DOMAIN after : after[i] \notin WhiteSpace} IN
    IF startswith(lower(text), kw) /\ nb # {} /\ SetMin(nb) > 1
    THEN SubSeq(after, SetMin(nb), Len(after)) ELSE <<>>

\* length of the match of cr_[A-Za-z0-9_]+ at the start of s, ignoring
\* case (0: no match)
MatchId(s) ==
    LET stop == {i \in DOMAIN s : i > 3 /\ ~IdChar(s[i])}
        n == IF stop = {} THEN Len(s) ELSE SetMin(stop) - 1 IN
    IF Len(s) >= 4 /\ lower(SubSeq(s, 1, 3)) = <<"c", "r", "_">> /\ n >= 4
    THEN n ELSE 0

\* re.match(r"^<keyword>\s+(cr_[A-Za-z0-9_]+)$", text, re.IGNORECASE):
\* <<group 1>>, or <<>> for no match
MatchKeywordId(text, kw) ==
    LET s == AfterKeyword(text, kw) IN
    IF MatchId(s) > 0 /\ MatchId(s) = Len(s) THEN <<s>> ELSE <<>>

\* re.match(r"^edit\s+(cr_[A-Za-z0-9_]+):\s*(.+)$", text,
\*          re.IGNORECASE | re.DOTALL): <<group 1, group 2>>, or <<>>
MatchEdit(text) ==
    LET s == AfterKeyword(text, KwEdit)
        n == MatchId(s)
        tail == SubSeq(s, n + 2, Len(s))
    IN  IF n > 0 /\ Len(s) > n + 1 /\ s[n + 1] = ":"
        THEN <<SubSeq(s, 1, n),
               IF lstrip(tail) # <<>> THEN lstrip(tail)
               ELSE <<tail[Len(tail)]>>>>
        ELSE <<>>

parse_imessage_command(text0) ==
    LET text == strip(text0) IN
    IF MatchKeywordId(text, KwApprove) # <<>>
    THEN Command("approved", MatchKeywordId(text, KwApprove)[1], <<>>)
    ELSE IF MatchKeywordId(text, KwSkip) # <<>>
    THEN Command("rejected", MatchKeywordId(text, KwSkip)[1], <<>>)
    ELSE IF MatchEdit(text) # <<>>
    THEN Command("edited", MatchEdit(text)[1], <<Truncate(strip(MatchEdit(text)[2]))>>)
    ELSE NoCommand

\* the parser of a channel's webhook
ParseCommand(ch, text) ==
    IF ch = "wa" THEN parse_whatsapp_command(text) ELSE parse_imessage_command(text)

\* ------------------------------------------------------- the messages explored
\* the id a candidate is submitted under: the seed tool's cr_<...> and the
\* orchestrator's ag_<run>_<platform>
IdText(id) ==
    IF id = 1 THEN <<"c", "r", "_", "1">> ELSE <<"a", "g", "_", "2">>
\* the candidate whose id the text is (0: no candidate has that id)
CandidateOf(t) ==
    IF \E id \in Ids : IdText(id) = t
    THEN CHOOSE id \in Ids : IdText(id) = t ELSE 0

Rep(c, n) == [i \in 1..n |-> c]
CaseForms(kw) ==
    { kw,
      [i \in DOMAIN kw |-> upper1(kw[i])],
      [i \in DOMAIN kw |-> IF i = 1 THEN upper1(kw[i]) ELSE kw[i]],
      [i \in DOMAIN kw |-> IF i % 2 = 0 THEN upper1(kw[i]) ELSE kw[i]] }
Words ==
    CaseForms(KwApprove) \cup CaseForms(KwSkip) \cup CaseForms(KwEdit)
        \cup {<<"x", "x">>, KwApprove \o <<"d">>}
Leads == {<<>>, <<"\n", " ">>}
Trails == {<<>>, <<" ", "\n">>}
Seps == {<<" ">>, <<" ", " ">>, <<"\t">>, <<>>}
IdWords ==
    {IdText(id) : id \in Ids}
        \cup {<<>>, <<"C", "R", "_", "1">>, <<"c", "r", "_", "2">>}
ShortBodies ==
    {<<>>, <<"x">>, <<"x", "\n", "x">>, <<"x", ":", "x">>, <<"x", " ", "x">>}
LongBodies ==
    { Rep("x", MaxEditLen - 1), Rep("x", MaxEditLen), Rep("x", MaxEditLen + 1),
      Rep("x", MaxBodyLen), Rep("x", MaxEditLen - 1) \o <<" ", "x">> }

\* a message as typed: its parts, in order
Messages ==
    [lead : Leads, word : Words, sep : Seps, id : IdWords, colon : {FALSE},
     gap : {<<>>}, body : {<<>>}, trail : Trails]
    \cup
    [lead : {<<>>}, word : Words, sep : {<<" ">>}, id : IdWords, colon : {TRUE},
     gap : {<<>>, <<" ">>}, body : ShortBodies, trail : Trails]
    \cup
    [lead : {<<>>}, word : {KwEdit}, sep : {<<" ">>}, id : {IdText(id) : id \in Ids},
     colon : {TRUE}, gap : {<<" ">>}, body : LongBodies, trail : {<<>>}]
Text(m) ==
    m.lead \o m.word \o m.sep \o m.id
        \o (IF m.colon THEN <<":">> \o m.gap \o m.body ELSE <<>>) \o m.trail

NoParts ==
    [lead |-> <<>>, word |-> <<>>, sep |-> <<>>, id |-> <<>>, colon |-> FALSE,
     gap |-> <<>>, body |-> <<>>, trail |-> <<>>]
NoMsg == [ch |-> "none", parts |-> NoParts, cmd |-> NoCommand]

\* a message arrives at the channel's webhook: the text is stripped and
\* parsed; without a command, or for an id no record is stored under, the
\* handler answers at once, otherwise it goes on as for that command
WhMessage(ch, m) ==
    LET cmd == ParseCommand(ch, strip(Text(m)))
        id == CandidateOf(cmd.candidate_id) IN
    /\ wh[ch].pc = "idle" /\ gcount.replies < lim.replies
    /\ msg' = [ch |-> ch, parts |-> m, cmd |-> cmd]
    /\ IF cmd = NoCommand \/ id = 0
       THEN WhArrive(ch, SetMin(Ids), "nocmd")
       ELSE WhArriveText(ch, id, cmd.action, cmd.edited_text)

(***************************************************************************)
(* Activity log: RedisStore.log_activity, RedisStore.get_activity and      *)
(* GET /activity (redis_store.py, main.py)                                 *)
(***************************************************************************)
MaxActivityLimit == 100
ActivityLogCap == 1000
Max(a, b) == IF a >= b THEN a ELSE b

\* ZREVRANGE key start stop on a sorted set of n entries: the entries from
\* the highest score down, positions start..stop (negative: from the end)
ZRevRange(n, start, stop) ==
    LET s == IF start < 0 THEN Max(n + start, 0) ELSE start
        e == IF stop < 0 THEN n + stop ELSE Min(stop, n - 1)
    IN  IF s > e \/ s >= n THEN <<>>
        ELSE [i \in 1..(e - s + 1) |-> n - (s + i - 1)]

\* if limit > 100: limit = 100
ClampLimit(limit) == IF limit > MaxActivityLimit THEN MaxActivityLimit ELSE limit

NoQuery == [asked |-> FALSE, limit |-> 0, result |-> <<>>]
\* the limits requested
Limits == (0 - MaxNegLimit)..2 \cup (MaxActivityLimit - 1)..(MaxActivityLimit + 1)

\* log_activity: ZADD activity:<brand> {json: score}
AZadd ==
    /\ apc = "idle" /\ alog < MaxLogged
    /\ alog' = alog + 1
    /\ apc' = "trim"
    /\ UNCHANGED <<aquery, azset, notA>>

\* log_activity: ZREMRANGEBYRANK activity:<brand> 0 -1001
ATrim ==
    /\ apc = "trim"
    /\ alog' = Min(alog, ActivityLogCap)
    /\ apc' = "idle"
    /\ UNCHANGED <<aquery, azset, notA>>

\* GET /activity?limit=<limit>: the limit is cut to 100, then
\* store.get_activity reads ZREVRANGE 0 (limit - 1)
GetActivity(limit) ==
    /\ aquery' = [asked |-> TRUE, limit |-> limit,
                  result |-> ZRevRange(alog, 0, ClampLimit(limit) - 1)]
    /\ UNCHANGED <<alog, apc, azset, notA>>

\* ---- the sorted set with its scores
\* created_at of the candidates whose entries are logged: the score of an
\* entry is entry.created_at.timestamp(), the time its candidate was
\* submitted, not the time of the log_activity call
CreatedAts == {0, SweepIntervalSec}
NoZset == [count |-> [s \in CreatedAts |-> 0], calls |-> 0, added |-> 0, early |-> 0]
MaxLogAdded == ActivityLogCap + MaxEarlyEntries

RECURSIVE ZCardOver(_, _)
ZCardOver(count, S) ==
    IF S = {} THEN 0
    ELSE LET s == CHOOSE x \in S : TRUE IN count[s] + ZCardOver(count, S \ {s})
\* ZCARD: the number of entries of the sorted set
ZCard(count) == ZCardOver(count, DOMAIN count)

RECURSIVE RemoveHighest(_, _, _)
\* mutant: the entries of the highest scores are the ones removed
RemoveHighest(count, k, S) ==
    IF S = {} \/ k = 0 THEN count
    ELSE LET s == CHOOSE x \in S : \A y \in S : y <= x
             r == Min(k, count[s])
         IN  RemoveHighest([count EXCEPT ![s] = @ - r], k - r, S \ {s})

RECURSIVE RemoveLowest(_, _, _)
\* the sorted set without its k entries of lowest rank among the scores S:
\* rank 0 is the lowest score
RemoveLowest(count, k, S) ==
    IF S = {} \/ k = 0 THEN count
    ELSE LET s == SetMin(S)
             r == Min(k, count[s])
         IN  RemoveLowest([count EXCEPT ![s] = @ - r], k - r, S \ {s})

\* ZREMRANGEBYRANK key 0 stop: a negative stop counts from the highest rank
ZRemRangeByRank(count, stop) ==
    LET n == ZCard(count)
        e == IF stop < 0 THEN n + stop ELSE Min(stop, n - 1)
    IN  IF e < 0 THEN count ELSE RemoveLowest(count, e + 1, DOMAIN count)

\* log_activity: ZADD activity:<brand> {entry JSON: entry.created_at}; the
\* entries differ in id or decided_at, so each ZADD adds a member
ALogZadd(created_at) ==
    /\ azset.calls < MaxLogCallers
    /\ azset.added < MaxLogAdded
    /\ created_at = SetMin(CreatedAts) => azset.early < MaxEarlyEntries
    /\ azset' = [azset EXCEPT
                   !.count[created_at] = @ + 1,
                   !.calls = @ + 1,
                   !.added = @ + 1,
                   !.early = IF created_at = SetMin(CreatedAts) THEN @ + 1 ELSE @]
    /\ UNCHANGED <<alog, apc, aquery, notA>>

\* log_activity: ZREMRANGEBYRANK activity:<brand> 0 -1001
ALogTrim ==
    /\ azset.calls > 0
    /\ azset' = [azset EXCEPT
                   !.count = ZRemRangeByRank(@, 0 - (ActivityLogCap + 1)),
                   !.calls = @ - 1]
    /\ UNCHANGED <<alog, apc, aquery, notA>>

ActivityIdle == alog = 0 /\ apc = "idle" /\ aquery = NoQuery /\ azset = NoZset
ActivityNext ==
    \/ AZadd
    \/ ATrim
    \/ \E limit \in Limits : GetActivity(limit)

(***************************************************************************)
(* Specifications                                                          *)
(***************************************************************************)
\* every other part of the system at rest, and no request budget
Rest(b, s, g, o) ==
    /\ b => BucketIdle
    /\ s => SpacingIdle
    /\ g => GatewayIdle
    /\ o => OrchIdle
    /\ msg = NoMsg
    /\ ActivityIdle
    /\ gpost = [i \in Ids |-> <<>>]
    /\ glife = "running"
    /\ KeysIdle

InitBucket == BucketInit(FALSE) /\ Rest(FALSE, TRUE, TRUE, TRUE) /\ lim = NoLimits
InitBucketSeq == BucketInit(TRUE) /\ Rest(FALSE, TRUE, TRUE, TRUE) /\ lim = NoLimits
InitSpacing == SpacingInit(FALSE) /\ Rest(TRUE, FALSE, TRUE, TRUE) /\ lim = NoLimits
InitSpacingSeq == SpacingInit(TRUE) /\ Rest(TRUE, FALSE, TRUE, TRUE) /\ lim = NoLimits
InitOrch ==
    /\ OrchInit /\ Rest(TRUE, TRUE, TRUE, FALSE)
    /\ lim = [NoLimits EXCEPT !.deliveries = MaxDeliveries, !.platforms = NPlatforms]
Init ==
    /\ GatewayInit /\ Rest(TRUE, TRUE, FALSE, TRUE)
    /\ lim = [NoLimits EXCEPT !.submits = MaxSubmits, !.replies = MaxReplies,
                              !.sweeps = MaxSweeps, !.ticks = MaxGatewayTicks]
Next == GatewayNext

\* the approval gateway: submissions, channel replies and the sweeper,
\* interleaved at their awaits
Spec == Init /\ [][Next]_vars

\* the steps of receive_candidate after the request was accepted
RcSteps ==
    \/ RcSave
    \/ RcTakeWa
    \/ RcTakeImsg
    \/ RcSpaceWa
    \/ RcSpaceImsg
    \/ RcSendImsg
    \/ RcUpdGet
    \/ RcUpdSave

InitSubmit ==
    /\ GatewayInit /\ Rest(TRUE, TRUE, FALSE, TRUE)
    /\ lim = [NoLimits EXCEPT !.submits = MaxSeqSubmits, !.ticks = MaxSeqTicks]
SubmitNext ==
    \/ \E id \in Ids : \E to \in [Chans -> BOOLEAN] : RcReceive(id, "ok", to)
    \/ RcSteps
    \/ GTick

\* authorized submissions, one after the other over several spacing periods
SpecSubmit == InitSubmit /\ [][SubmitNext]_vars

InitAuth ==
    /\ GatewayInit /\ OrchInit /\ Rest(TRUE, TRUE, FALSE, FALSE)
    /\ lim = [NoLimits EXCEPT !.submits = 1, !.deliveries = 2, !.platforms = 1]
AuthNext ==
    \/ \E id \in Ids : \E auth \in Auths : \E to \in [Chans -> BOOLEAN] :
          RcReceive(id, auth, to)
    \/ RcSteps
    \/ OrchNext

\* both receivers of authenticated requests: POST /candidate of the gateway
\* and POST /decisions of the orchestrator
SpecAuth == InitAuth /\ [][AuthNext]_vars

InitActivity == Rest(TRUE, TRUE, TRUE, TRUE) /\ lim = NoLimits
\* entries are logged and GET /activity is called with any limit
SpecActivity == InitActivity /\ [][ActivityNext]_vars

\* the prompt buckets refill by one token in TokenUnit seconds
InitSweep ==
    /\ gowner \in BOOLEAN /\ grate = 1 /\ GatewayRest
    /\ Rest(TRUE, TRUE, FALSE, TRUE)
    /\ lim = [NoLimits EXCEPT !.submits = NIds, !.sweeps = MaxFailSweeps,
                              !.ticks = MaxFailTicks]
SweepNext ==
    \/ \E id \in Ids : \E to \in [Chans -> BOOLEAN] : RcReceive(id, "ok", to)
    \/ RcSteps
    \/ SwBegin
    \/ \E id \in Ids : SwRead(id)
    \/ SwUpdGet
    \/ SwUpdSave
    \/ SwSend
    \/ SwLog
    \/ SwRaise
    \/ GTick

\* submissions that nobody answers, and sweeps whose awaited calls may raise
SpecSweep == InitSweep /\ [][SweepNext]_vars

\* ---- one orchestrator run and the gateway it submits to, nobody answering
\* send_decision_to_core posts json=decision.model_dump() and passes no
\* headers: the request carries no Authorization header
DecisionRequestAuth == "missing"

RECURSIVE Dispatched(_)
\* number of Decision POSTs made for the ids of S
Dispatched(S) ==
    IF S = {} THEN 0
    ELSE LET i == CHOOSE j \in S : TRUE IN Len(gdisp[i]) + Dispatched(S \ {i})

\* send_candidate: POST /candidate with the gateway's bearer secret
FlowSubmit ==
    /\ orun.pc = "send"
    /\ gcount.submits < orun.k
    /\ \E to \in [Chans -> BOOLEAN] : RcReceive(orun.k, "ok", to)

\* the response is there: a status of 400 and more makes send_candidate
\* raise (its retries meet the same response), anything else lets
\* node_submit_for_approval go on
FlowSent ==
    /\ orun.pc = "send" /\ rc.pc = "idle"
    /\ gcount.submits >= orun.k
    /\ OSent
    /\ orun'.pc = "failed" <=> rc.resp \in {"401", "500"}

\* the POST of send_decision_to_core reaches POST /decisions while the
\* sweeper awaits the response
FlowDeliver ==
    /\ sw.pc = "log"
    /\ ocount < Dispatched(Ids)
    /\ LET id == Head(sw.expired) IN
          ReceiveDecision(id, gdisp[id][Len(gdisp[id])], DecisionRequestAuth)

\* the response has arrived, log_activity follows
FlowLog == ocount >= Dispatched(Ids) /\ SwLog

\* asyncio.wait_for(future, timeout=approval_timeout_sec) times out
FlowTimeout == gnow >= orun.since + ApprovalTimeoutSec /\ OWaitTimeout

\* time passes only while nothing is ready to run: no request is being
\* served, the sweeper's sleep is not over, the run is not at a step it can
\* take
FlowTick ==
    /\ rc.pc = "idle" /\ sw.pc = "sleep" /\ gnow < sw.wake
    /\ orun.pc \notin {"register", "send"}
    /\ orun.pc = "wait" =>
          /\ ofut[orun.k].state = "pending"
          /\ gnow < orun.since + ApprovalTimeoutSec
    /\ GTick

InitFlow ==
    /\ GatewayInit /\ OrchInit /\ Rest(TRUE, TRUE, FALSE, FALSE)
    /\ lim = [NoLimits EXCEPT !.submits = 1, !.platforms = 1, !.deliveries = 1,
                              !.sweeps = MaxFlowTicks + 1, !.ticks = MaxFlowTicks]
FlowNext ==
    \/ OStart
    \/ ORegister
    \/ FlowSubmit
    \/ RcSteps
    \/ FlowSent
    \/ SwBegin
    \/ \E id \in Ids : SwRead(id)
    \/ SwUpdGet
    \/ SwUpdSave
    \/ SwSend
    \/ FlowDeliver
    \/ FlowLog
    \/ OWaitResult
    \/ FlowTimeout
    \/ FlowTick

\* a run submits its candidate, no reply comes, the sweeper and the run's
\* wait go on; every step that can be taken is taken in the end
SpecFlow == InitFlow /\ [][FlowNext]_vars /\ WF_vars(FlowNext)

\* the same with a candidate for every platform of the run
InitRun ==
    /\ GatewayInit /\ OrchInit /\ Rest(TRUE, TRUE, FALSE, FALSE)
    /\ lim = [NoLimits EXCEPT !.submits = NPlatforms, !.platforms = NPlatforms,
                              !.deliveries = NPlatforms,
                              !.sweeps = MaxFlowTicks + 1, !.ticks = MaxFlowTicks]
SpecRun == InitRun /\ [][FlowNext]_vars

\* ---- every source of a Decision: the channel webhooks and the sweeper of
\* the gateway, and the timeout of a run's wait
InitDecide ==
    /\ GatewayInit /\ OrchInit /\ Rest(TRUE, TRUE, FALSE, FALSE)
    /\ lim = [NoLimits EXCEPT !.submits = 1, !.replies = 1, !.sweeps = 1,
                              !.ticks = 1, !.platforms = 1]
DecideNext ==
    \/ \E id \in Ids : \E to \in [Chans -> BOOLEAN] : RcReceive(id, "ok", to)
    \/ RcSteps
    \/ \E ch \in Chans : \E id \in Ids : \E p \in ParsedReplies : WhCommand(ch, id, p)
    \/ \E ch \in Chans : WhUpdGet(ch)
    \/ \E ch \in Chans : WhUpdSave(ch)
    \/ \E ch \in Chans : WhSend(ch)
    \/ \E ch \in Chans : WhLog(ch)
    \/ SwBegin
    \/ \E id \in Ids : SwRead(id)
    \/ SwUpdGet
    \/ SwUpdSave
    \/ SwSend
    \/ SwLog
    \/ GTick
    \/ OStart
    \/ ORegister
    \/ OSent
    \/ OWaitTimeout
SpecDecide == InitDecide /\ [][DecideNext]_vars

\* ---- the gateway with the end of every Decision POST observed
InitDeliver ==
    /\ GatewayInit /\ Rest(TRUE, TRUE, FALSE, TRUE)
    /\ lim = [NoLimits EXCEPT !.submits = 1, !.replies = 1, !.sweeps = 1,
                              !.ticks = 1]
DeliverNext ==
    \/ \E id \in Ids : \E to \in [Chans -> BOOLEAN] : RcReceive(id, "ok", to)
    \/ RcSteps
    \/ \E ch \in Chans : \E id \in Ids : \E cmd \in ReplyInputs :
          WhReceive(ch, id, cmd)
    \/ \E ch \in Chans : WhUpdGet(ch)
    \/ \E ch \in Chans : WhUpdSave(ch)
    \/ \E ch \in Chans : \E outcome \in PostOutcomes : WhPost(ch, outcome)
    \/ \E ch \in Chans : WhLog(ch)
    \/ SwBegin
    \/ \E id \in Ids : SwRead(id)
    \/ SwUpdGet
    \/ SwUpdSave
    \/ \E outcome \in PostOutcomes : SwPost(outcome)
    \/ SwLog
    \/ GTick
SpecDeliver == InitDeliver /\ [][DeliverNext]_vars

\* ---- the sweeper task from startup to shutdown, its calls failing at will
\* the steps of check_timeouts; once cancel() was called the next thing the
\* task sees is the CancelledError
SwSteps ==
    \/ SwBegin
    \/ \E id \in Ids : SwRead(id)
    \/ SwUpdGet
    \/ SwUpdSave
    \/ \E outcome \in PostOutcomes : SwPost(outcome)
    \/ SwLog
    \/ SwRaise

InitLoop ==
    /\ GatewayInit /\ Rest(TRUE, TRUE, FALSE, TRUE)
    /\ lim = [NoLimits EXCEPT !.submits = 1, !.sweeps = MaxLoopSweeps,
                              !.ticks = MaxLoopSweeps]
LoopNext ==
    \/ \E id \in Ids : \E to \in [Chans -> BOOLEAN] : RcReceive(id, "ok", to)
    \/ RcSteps
    \/ glife # "cancelling" /\ SwSteps
    \/ GTick
    \/ Shutdown
    \/ SwCancel
    \/ LifespanClose
\* the event loop delivers the cancellation and resumes lifespan
SpecLoop ==
    InitLoop /\ [][LoopNext]_vars /\ WF_vars(SwCancel) /\ WF_vars(LifespanClose)

InitReply ==
    /\ GatewayInit /\ Rest(TRUE, TRUE, FALSE, TRUE)
    /\ lim = [NoLimits EXCEPT !.submits = NIds, !.replies = 1]
ReplyNext ==
    \/ \E id \in Ids : \E to \in [Chans -> BOOLEAN] : RcReceive(id, "ok", to)
    \/ RcSteps
    \/ /\ rc.pc = "idle" /\ gcount.submits = lim.submits
       /\ gcount.replies < lim.replies
       /\ \E ch \in Chans : \E m \in Messages : WhMessage(ch, m)
    \/ \E ch \in Chans : WhUpdGet(ch)
    \/ \E ch \in Chans : WhUpdSave(ch)
    \/ \E ch \in Chans : WhSend(ch)
    \/ \E ch \in Chans : WhLog(ch)

\* submissions, and then one message typed into a channel
SpecReply == InitReply /\ [][ReplyNext]_vars

\* one orchestrator run waiting for its decisions while POST /decisions
\* requests arrive
SpecOrch == InitOrch /\ [][OrchNext]_vars

\* ---- one run's waits followed in time, POST /decisions requests arriving
\* sweep intervals it takes every wait of the run to time out
WaitTicks ==
    NPlatforms * ((ApprovalTimeoutSec + SweepIntervalSec - 1) \div SweepIntervalSec)

\* time passes while the run is suspended in asyncio.wait_for: the future
\* is pending and the timeout has not run out
WaitTick ==
    /\ orun.pc = "wait"
    /\ ofut[orun.k].state = "pending"
    /\ gnow < orun.since + ApprovalTimeoutSec
    /\ GTick

InitWait ==
    /\ OrchInit /\ Rest(TRUE, TRUE, TRUE, FALSE)
    /\ lim = [NoLimits EXCEPT !.deliveries = MaxDeliveries, !.platforms = NPlatforms,
                              !.ticks = WaitTicks]
WaitNext ==
    \/ OStart
    \/ ORegister
    \/ OSent
    \/ OWaitResult
    \/ FlowTimeout
    \/ WaitTick
    \/ \E id \in Cands \cup {UnknownId} : \E payload \in Payloads :
          \E auth \in Auths : ReceiveDecision(id, payload, auth)

\* the event loop runs whatever is ready: a step that can be taken is taken
SpecWait == InitWait /\ [][WaitNext]_vars /\ WF_vars(WaitNext)

\* ---- a run with or without require_approval, through node_execute_tools
InitExecute ==
    /\ OrchInit /\ Rest(TRUE, TRUE, TRUE, FALSE)
    /\ lim = [NoLimits EXCEPT !.deliveries = MaxExecDeliveries, !.platforms = NPlatforms,
                              !.ticks = WaitTicks]
ExecuteNext ==
    \/ OStart
    \/ OStartWithout
    \/ ORegister
    \/ OSent
    \/ OWaitResult
    \/ FlowTimeout
    \/ WaitTick
    \/ \E id \in Cands : \E payload \in ExecPayloads :
          \E auth \in Auths : ReceiveDecision(id, payload, auth)
    \/ OBeginExecute
    \/ OExecutePlatform
    \/ OExecuteTool
SpecExecute == InitExecute /\ [][ExecuteNext]_vars

\* ---- the gates of submissions of several brands, call by call
InitKeys ==
    /\ gowner = FALSE /\ grate \in {0, 1} /\ GatewayRest
    /\ Rest(TRUE, TRUE, FALSE, TRUE)
    /\ lim = [NoLimits EXCEPT !.submits = MaxKeyCalls, !.ticks = MaxKeyTicks]
KeysNext ==
    \/ \E brand \in Brands : \E ch \in Chans : KTake(brand, ch)
    \/ \E brand \in Brands : \E ch \in Chans : KSpace(brand, ch)
    \/ GTick
SpecKeys == InitKeys /\ [][KeysNext]_vars

\* ---- entries of candidates of two creation times are logged, the calls
\* of log_activity overlapping
InitLog == Rest(TRUE, TRUE, TRUE, TRUE) /\ lim = NoLimits
LogNext ==
    \/ \E created_at \in CreatedAts : ALogZadd(created_at)
    \/ ALogTrim
SpecLog == InitLog /\ [][LogNext]_vars

\* concurrent callers of one bucket, within one TTL period of its key
SpecBucket == InitBucket /\ [][BucketNext]_vars
\* one call at a time, over more than one TTL period
SpecBucketSeq == InitBucketSeq /\ [][BucketSeqNext]_vars
\* concurrent callers of one spacing key
SpecSpacing == InitSpacing /\ [][SpacingNext]_vars
\* one call at a time
SpecSpacingSeq == InitSpacingSeq /\ [][SpacingNext]_vars

(***************************************************************************)
(* Claims about the approval gateway                                       *)
(***************************************************************************)
\* the decider a Decision carries when the given actor dispatches it
ActorDecider(a) == IF a = "sweeper" THEN "system:timeout" ELSE DeciderOf(a)

\* a channel webhook's, the sweeper's or receive_candidate's update_state
\* call on the given id stores its record in this step
WhSaves(id) ==
    \E ch \in Chans : wh[ch].pc = "upd_save" /\ wh'[ch].pc = "send" /\ wh[ch].id = id
SwSaves(id) ==
    sw.pc = "upd_save" /\ sw'.pc = "send" /\ Head(sw.expired) = id

\* an update_state call on the given id has read the record in this step and
\* goes on to store its changed copy of it
ReadsAndGoesOnToWrite(id) ==
    \/ \E ch \in Chans : /\ wh[ch].pc = "upd_get" /\ wh[ch].id = id
                         /\ wh'[ch].pc = "upd_save" /\ wh'[ch].copy # grec[id]
    \/ /\ sw.pc = "upd_get" /\ Head(sw.expired) = id
       /\ sw'.pc = "upd_save" /\ sw'.copy # grec[id]
    \/ /\ rc.pc = "upd_get" /\ rc.id = id
       /\ rc'.pc = "upd_save" /\ rc'.copy # grec[id]

\* C1: however the WhatsApp webhook, the iMessage webhook, the sweeper and
\* receive_candidate interleave, at most one Decision is dispatched for a
\* candidate id, and it is dispatched by the actor whose write made the
\* record terminal.
C1_AtMostOneDecision ==
    \A id \in Ids :
        /\ Len(gdisp[id]) <= 1
        /\ Len(gdisp[id]) = 1 =>
              /\ gterm[id] # "none"
              /\ gdisp[id][1].decider = ActorDecider(gterm[id])

\* C2: when a human reply and the sweeper's expiry race on one prompted id,
\* the update_state that is stored second (the sweeper's on a record a human
\* decided, or a reply's on a record the sweeper expired) leaves the
\* record's status, decided_at and decider as the first one stored them.
C2_FirstUpdateWins ==
    [][\A id \in Ids :
         (\/ SwSaves(id) /\ grec[id].status \in Commands
          \/ WhSaves(id) /\ grec[id].status = "expired") =>
            /\ grec'[id].status = grec[id].status
            /\ grec'[id].decided_at = grec[id].decided_at
            /\ grec'[id].decider = grec[id].decider
      ]_vars

\* C3: an update_state call that finds the record already terminal is a
\* no-op, whatever status it was asked to set: it does not go on to store a
\* changed record.
C3_TerminalIsFinal ==
    [][\A id \in Ids :
         grec[id].status \in Terminal => ~ReadsAndGoesOnToWrite(id)
      ]_vars

\* C4: every change of a stored record's status is new -> prompted or
\* prompted -> terminal: never new -> terminal, never back to new or
\* prompted, the write of receive_candidate's update to prompted included.
C4_LegalTransitions ==
    [][\A id \in Ids :
         (grec[id].status # "none" /\ grec'[id].status # grec[id].status) =>
            \/ grec[id].status = "new" /\ grec'[id].status = "prompted"
            \/ grec[id].status = "prompted" /\ grec'[id].status \in Terminal
      ]_vars

(***************************************************************************)
(* Claims about submissions                                                *)
(***************************************************************************)
\* receive_candidate takes a request in this step
Submitted == rc.pc = "idle" /\ gcount'.submits = gcount.submits + 1

\* the step leaves every record, bucket, spacing mark and prompt count alone
\* and the handler has returned
NothingDone ==
    /\ rc'.pc = "idle"
    /\ grec' = grec /\ gbucket' = gbucket /\ gmark' = gmark /\ gsent' = gsent

\* C13: an authorized receive_candidate for an id whose stored record has a
\* status other than new answers "duplicate" and does nothing else: the
\* record, the buckets and the spacing marks are unchanged and no prompt is
\* sent.
C13_DuplicateIsNoOp ==
    [][\A id \in Ids :
         (/\ Submitted /\ rc'.id = id /\ rc'.auth = "ok"
          /\ grec[id].status \notin {"none", "new"})
            => rc'.resp = "duplicate" /\ NothingDone
      ]_vars

\* a prompted id was submitted again and answered duplicate
C13_Witness ==
    /\ rc.pc = "idle" /\ rc.resp = "duplicate" /\ rc.auth = "ok"
    /\ rc.id \in Ids /\ grec[rc.id].status = "prompted"

C15_BadCredentialRejected ==
    [][/\ (Submitted /\ rc'.auth # "ok") => rc'.resp = "401" /\ NothingDone
       /\ (ocount' = ocount + 1 /\ olast'.auth # "ok") =>
             olast'.resp = "401" /\ ofut' = ofut
      ]_vars

\* C15, amended: the same, for an orchestrator whose decision secret is not
\* empty (with an empty secret verify_decision_signature accepts every
\* request).
C15_BadCredentialRejectedWhenConfigured ==
    [][/\ (Submitted /\ rc'.auth # "ok") => rc'.resp = "401" /\ NothingDone
       /\ (osecret /\ ocount' = ocount + 1 /\ olast'.auth # "ok") =>
             olast'.resp = "401" /\ ofut' = ofut
      ]_vars

\* a submission without header was refused, and so was a decision with a
\* wrong credential for a future that is still pending
C15_Witness ==
    /\ rc.resp = "401" /\ rc.auth = "missing"
    /\ osecret /\ olast.resp = "401" /\ olast.auth = "bad"
    /\ olast.id \in Cands /\ ofut[olast.id].state = "pending"

(***************************************************************************)
(* Claims about the orchestrator's rendezvous                              *)
(***************************************************************************)
\* C10: when decisions A and then B are delivered to receive_decision for a
\* registered id whose handle A resolved, the handle keeps A as its result,
\* the delivery of B is answered "ignored" and leaves every handle unchanged,
\* and the waiting run observes A.
C10_FirstDecisionWins ==
    [][\A c \in Cands :
         /\ (ofirst[c] # NoPayload /\ ocount' = ocount + 1 /\ olast'.id = c
                                    /\ olast'.resp # "401")
               => /\ olast'.resp = "ignored"
                  /\ ofut' = ofut
         /\ ofirst'[c] # NoPayload
               => /\ ofut'[c].result = ofirst'[c]
                  /\ orun'.decisions[c] \in {NoPayload, ofirst'[c]}
      ]_vars

\* A resolved the handle, a different B was then delivered and ignored, and
\* the run has taken A as the decision of that candidate
C10_Witness ==
    \E c \in Cands :
        /\ ofirst[c] # NoPayload
        /\ olast.id = c /\ olast.resp = "ignored" /\ olast.payload # ofirst[c]
        /\ orun.decisions[c] = ofirst[c]

(***************************************************************************)
(* Claims about the token bucket                                           *)
(***************************************************************************)
NoResetYet == ~bstat.resets /\ \A p \in Procs : bloc[p].op # "reset"

\* C5: take on one key behaves as one atomic operation: a bucket holding
\* Capacity tokens with zero refill rate, never reset and within its key's
\* TTL, grants at most Capacity of any set of take(1) calls, however the
\* calls interleave at their storage accesses.
C5_NeverOverspent ==
    (brate = 0 /\ bstat.only1 /\ NoResetYet /\ bnow < BucketTtlSec)
        => bstat.granted <= CapUnits

\* C6: on a bucket used for the first time with refill rate 0, as long as
\* only non-overlapping take(1) calls were made, the first Capacity of them
\* return true and every later one false; and whatever the rate, the first
\* take(1) on an uninitialized bucket succeeds.
C6_ExactlyCapacityTakes ==
    /\ (brate = 0 /\ bstat.only1 /\ bnow < BucketTtlSec)
          => bstat.granted = Min(bstat.takes, Capacity) * TokenUnit
    /\ (bstat.only1 /\ bstat.takes >= 1) => bstat.granted >= TokenUnit

\* the (Capacity+1)-th consecutive take(1) has returned, refill rate 0
C6_Witness ==
    /\ brate = 0 /\ bstat.only1 /\ bnow < BucketTtlSec
    /\ bstat.takes = Capacity + 1
    /\ bstat.granted = CapUnits

\* C7: after every storage write of any take, peek or reset the persisted
\* token count is within [0, capacity].
C7_TokensWithinCapacity ==
    bkey.exists => (0 <= bkey.tokens /\ bkey.tokens <= CapUnits)

\* a reset and a take have completed and the bucket is partly filled
C7_Witness ==
    /\ bstat.resets /\ bstat.takes >= 1
    /\ Live(bkey, bnow) /\ 0 < bkey.tokens /\ bkey.tokens < CapUnits

\* C8: a peek that finds the bucket at 0 tokens, t seconds after its last
\* update, computes (and returns) min(capacity, r*t) tokens, and the count a
\* peek persists is never below the count it found.
C8_PeekReportsRefill ==
    [][\A p \in Procs :
         /\ (bpc[p] = "hmget" /\ bpc'[p] = "set_hset"
                                /\ bloc[p].op = "peek" /\ Live(bkey, bnow))
               => /\ bkey.tokens = 0 =>
                        bloc'[p].tokens
                          = Min(CapUnits, brate * (bnow - bkey.last_update))
                  /\ bloc'[p].tokens >= bkey.tokens
         /\ (bpc[p] = "set_hset" /\ bpc'[p] = "set_expire"
                                   /\ bloc[p].op = "peek" /\ Live(bkey, bnow))
               => /\ bkey'.tokens = bloc[p].tokens
                  /\ bkey'.tokens >= bkey.tokens
      ]_vars

\* a peek found 0 tokens and is about to persist a partial refill
C8_Witness ==
    \E p \in Procs :
        /\ bpc[p] = "set_hset" /\ bloc[p].op = "peek"
        /\ Live(bkey, bnow) /\ bkey.tokens = 0
        /\ 0 < bloc[p].tokens /\ bloc[p].tokens < CapUnits

(***************************************************************************)
(* Claims about the spacing gate                                           *)
(***************************************************************************)
\* C9: for successive non-overlapping enforce_spacing calls on one key, a call
\* that finds no stored mark returns true, a call made less than
\* min_spacing_sec after the last granted call returns false, and a call made
\* at least min_spacing_sec after it returns true.
C9_SpacingDecision ==
    [][\A p \in Procs :
         (spc[p] = "get" /\ spc'[p] # "get") =>
            LET granted == spc'[p] = "setex" IN
            /\ ~Live(smark, snow) => granted
            /\ slast = None => granted
            /\ (slast # None /\ snow - slast < MinSpacingSec) => ~granted
            /\ (slast # None /\ snow - slast >= MinSpacingSec) => granted
      ]_vars

\* a call was refused inside the gap and a later one granted after the gap
C9_Witness ==
    /\ SpacingInFlight = 0 /\ sdenied >= 1
    /\ slast # None /\ slast >= MinSpacingSec

(***************************************************************************)
(* Claims about the channel command parsers                                *)
(***************************************************************************)
IdTexts == {IdText(id) : id \in Ids}

\* the message received was typed as "<keyword> <id>", in some letter case
\* and with whitespace around it
TypedAs(kw) ==
    /\ msg.ch # "none" /\ ~msg.parts.colon
    /\ msg.parts.word \in CaseForms(kw)
    /\ msg.parts.sep = <<" ">> /\ msg.parts.id \in IdTexts

\* C16: both parsers turn "approve <id>" into {approved, <id>, None} and
\* "skip <id>" into {rejected, <id>, None}, whatever the letter case of the
\* keyword and the whitespace before and after the message.
C16_ApproveAndSkip ==
    /\ TypedAs(KwApprove) => msg.cmd = Command("approved", msg.parts.id, <<>>)
    /\ TypedAs(KwSkip) => msg.cmd = Command("rejected", msg.parts.id, <<>>)

\* the message received was typed as "edit <id>: <text>" with some text
TypedEdit ==
    /\ msg.ch # "none" /\ msg.parts.colon
    /\ msg.parts.word \in CaseForms(KwEdit)
    /\ msg.parts.sep = <<" ">> /\ msg.parts.id \in IdTexts
    /\ msg.parts.body # <<>>

\* C17: both parsers turn "edit <id>: <text>" into {edited, <id>, <text>},
\* line breaks in the text included, a text of more than 200 characters cut
\* to its first 200; and no parser returns an edited_text longer than 200.
C17_EditCarriesText ==
    /\ TypedEdit =>
          msg.cmd = Command("edited", msg.parts.id,
                            <<SubSeq(msg.parts.body, 1,
                                     Min(Len(msg.parts.body), MaxEditLen))>>)
    /\ msg.cmd.edited_text # <<>> => Len(msg.cmd.edited_text[1]) <= MaxEditLen

\* the message is a keyword without an id, an edit without a colon, a text
\* that does not begin with a keyword, or a keyword with no space after it
NotACommand(m) ==
    \/ m.id = <<>> /\ ~m.colon
    \/ m.word \in CaseForms(KwEdit) /\ ~m.colon
    \/ m.word \notin CaseForms(KwApprove) \cup CaseForms(KwSkip) \cup CaseForms(KwEdit)
    \/ m.sep = <<>> /\ ~m.colon

\* C18: for a message that is none of the three commands the parser returns
\* None, and a webhook whose parser returned None answers at once: it
\* changes no record, dispatches no Decision and logs no activity.
C18_NoCommandNoEffect ==
    [][\A ch \in Chans :
         (gcount'.replies = gcount.replies + 1 /\ msg'.ch = ch) =>
            /\ NotACommand(msg'.parts) => msg'.cmd = NoCommand
            /\ msg'.cmd = NoCommand =>
                  /\ wh'[ch] = IdleWh
                  /\ grec' = grec /\ gdisp' = gdisp /\ gact' = gact
      ]_vars

\* "edit cr_1" without a colon was received for a prompted candidate: no
\* command, and nothing was dispatched
C18_Witness ==
    /\ msg.ch \in Chans /\ msg.cmd = NoCommand
    /\ msg.parts.word = KwEdit /\ msg.parts.id = IdText(1) /\ ~msg.parts.colon
    /\ grec[1].status = "prompted" /\ gdisp[1] = <<>>
    /\ wh[msg.ch] = IdleWh

(***************************************************************************)
(* Claims about the activity log                                           *)
(***************************************************************************)
\* C19: whatever integer limit is requested, zero and negative limits
\* included, GET /activity returns at most 100 entries, the most recent
\* (highest score) first.
C19_AtMostHundredEntries ==
    aquery.asked =>
        /\ Len(aquery.result) <= MaxActivityLimit
        /\ \A i \in 1..(Len(aquery.result) - 1) :
              aquery.result[i] > aquery.result[i + 1]

(***************************************************************************)
(* Claims about failures in the sweeper                                    *)
(***************************************************************************)
\* C20: a failure while one due record is processed does not end the sweep
\* as long as due records of its list are left, and whenever the sweeper
\* goes to sleep every record with status expired has had its Decision
\* dispatched.
C20_SweepSurvivesFailure ==
    [][/\ (sw'.error /\ ~sw.error) => Len(sw.expired) <= 1
       /\ sw'.pc = "sleep" =>
             \A id \in Ids : grec'[id].status = "expired" => gdisp'[id] # <<>>
      ]_vars

(***************************************************************************)
(* Claims about a run whose candidate nobody answers                       *)
(***************************************************************************)
ExpiredDecision ==
    [decision |-> "expired", final_text |-> <<>>, decider |-> "system:timeout"]

\* C11: when the wait of a run for a candidate that was prompted and never
\* answered is over, the stored status is expired, exactly one Decision
\* (expired, system:timeout) was dispatched for it, and the run's future
\* was resolved by that Decision, which is what the run has taken.
C11_TimeoutReachesWorkflow ==
    \A c \in 1..lim.platforms :
        (orun.pc = "done" /\ grec[c].status \in {"prompted", "expired"}) =>
            /\ grec[c].status = "expired"
            /\ gdisp[c] = <<ExpiredDecision>>
            /\ ofut[c] = [state |-> "done", result |-> gdisp[c][1]]
            /\ orun.decisions[c] = gdisp[c][1]

\* C12: a Decision POST of send_decision_to_core carries the bearer secret:
\* a receiver whose decision secret is configured verifies it, and a
\* pending future is resolved by it.
C12_DecisionPostIsAuthorized ==
    [][(ocount' = ocount + 1 /\ osecret) =>
          /\ olast'.auth = "ok" /\ olast'.resp # "401"
          /\ (olast'.id \in Cands /\ ofut[olast'.id].state = "pending") =>
                 ofut'[olast'.id].state = "done"
      ]_vars


(***************************************************************************)
(* Claims about the run's waits (node_wait_for_decisions)                  *)
(***************************************************************************)
\* the wait of candidate k returns in this step
WaitReturns(k) ==
    /\ orun.pc = "wait" /\ orun.k = k
    /\ orun'.decisions[k] # orun.decisions[k]

Awaited ==
    IF orun.pc = "register" THEN {c \in Cands : c < orun.k}
    ELSE IF orun.pc = "send" THEN {c \in Cands : c <= orun.k}
    ELSE IF orun.pc = "wait" THEN {c \in Cands : orun.k <= c /\ c <= lim.platforms}
    ELSE {}

\* C23: once the wait for an id is over (resolved, timed out, or the run
\* failed), PENDING_DECISIONS has no entry for the id; the map never holds
\* more entries than requests are being awaited.
C23_NoEntryAfterWait ==
    /\ \A c \in Cands : ofut[c].state # "absent" => c \in Awaited
    /\ Cardinality({c \in Cands : ofut[c].state # "absent"}) <= Cardinality(Awaited)

\* the gateway has been sent, or is being sent, the request of the id
Requested(id) == rc.id = id \/ grec[id].status # "none" \/ gdisp[id] # <<>>

\* C22: the handle of a request id is in PENDING_DECISIONS before the request
\* is submitted to the gateway, so that a decision for the id never comes to
\* receive_decision while the handle is missing.
C22_RegisteredBeforeSubmitted ==
    /\ \A id \in Cands \cap Ids : Requested(id) => ofut[id].state # "absent"
    /\ olast.resp # "none" => /\ olast.id \in Cands
                              /\ ofut[olast.id].state # "absent"

\* both requests were submitted with their handles registered, and the
\* decision of the first has been delivered and has resolved its handle
C22_Witness ==
    /\ olast.id = 1 /\ olast.resp = "ok"
    /\ ofut[1].state = "done"
    /\ ofut[2].state = "pending" /\ Requested(2)

(***************************************************************************)
(* Claims about the Decisions                                              *)
(***************************************************************************)
\* the Decisions the gateway has dispatched and the run has made up
DecisionsMade ==
    {gdisp[id][i] : <<id, i>> \in {x \in Ids \X (1..3) : x[2] <= Len(gdisp[x[1]])}}
    \cup {orun.decisions[c] : c \in {k \in Cands : orun.decisions[k] # NoPayload}}

\* C24: a Decision dispatched by the gateway or made up by the run has a
\* final_text exactly if its decision is approved or edited: the proposed
\* text for approved, the edited text for edited, null for rejected and
\* expired.
C24_FinalTextIffApprovedOrEdited ==
    /\ [](\A d \in DecisionsMade :
            /\ d.final_text # <<>> <=> d.decision \in {"approved", "edited"}
            /\ d.decision = "approved" => d.final_text = <<ProposedText>>)
    /\ [][\A ch \in Chans :
            (wh[ch].pc = "send" /\ wh'[ch].pc = "log" /\ wh[ch].action = "edited")
               => LET d == gdisp'[wh[ch].id][Len(gdisp'[wh[ch].id])]
                  IN  d.decision = "edited" /\ d.final_text = wh[ch].edited_text
        ]_vars

\* an approval, a rejection, an edit (its text empty or not), an expiry and
\* a decision made up by the run have each been seen
C24_Witness ==
    /\ \E d \in DecisionsMade : d.decision \in {"approved", "rejected", "edited"}
    /\ \E d \in DecisionsMade : d.decision = "expired" /\ d.decider = "system:timeout"
                                 /\ d \notin {orun.decisions[c] : c \in Cands}
    /\ \E c \in Cands : orun.decisions[c].decision = "expired"

\* the last POST made for the id ended in a failure of the network or in a
\* response that is not 2xx
PostFailed(p, id) ==
    p[id] # <<>> /\ p[id][Len(p[id])] \in {"non2xx", "network"}

\* C25: send_decision_to_core makes one delivery attempt; when it fails
\* (network failure, response that is not 2xx) nothing is raised and nothing
\* is retried: the caller goes on to log_activity, the record is left as it
\* is, and the ActivityEntry is appended.
C25_FailedDeliverySwallowed ==
    [][/\ \A ch \in Chans :
            LET id == wh[ch].id IN
            /\ (wh[ch].pc = "send" /\ wh'[ch] # wh[ch])
                  => /\ Len(gdisp'[id]) = Len(gdisp[id]) + 1
                     /\ grec' = grec
                     /\ PostFailed(gpost', id) => wh'[ch].pc = "log"
            /\ (wh[ch].pc = "log" /\ wh'[ch] # wh[ch])
                  => /\ gdisp' = gdisp /\ grec' = grec
                     /\ gact'[id] = gact[id] + 1
       /\ (sw.pc = "send" /\ sw' # sw)
             => LET id == Head(sw.expired) IN
                /\ Len(gdisp'[id]) = Len(gdisp[id]) + 1
                /\ grec' = grec
                /\ PostFailed(gpost', id) => sw'.pc = "log"
       /\ (sw.pc = "log" /\ sw' # sw)
             => /\ gdisp' = gdisp /\ grec' = grec
                /\ gact'[Head(sw.expired)] = gact[Head(sw.expired)] + 1
      ]_vars

\* a webhook's POST failed on the network, and the handler has finished: the
\* record is terminal and its activity entry is logged
C25_Witness ==
    \E id \in Ids :
        /\ gpost[id] = <<"network">> /\ Len(gdisp[id]) = 1
        /\ gdisp[id][1].decision \in Commands
        /\ grec[id].status \in Commands
        /\ gact[id] = 1
        /\ \A ch \in Chans : wh[ch].pc = "idle"

(***************************************************************************)
(* Claims about the stored record and the sweeper's expiry                 *)
(***************************************************************************)
\* C26: decided_at and decider of a record are null while its status is new
\* or prompted, both are set by the transition into a terminal status, and
\* they never change after that.
C26_DecidedOnceAtTerminal ==
    /\ [](\A id \in Ids :
            /\ grec[id].status \in {"new", "prompted"}
                  => grec[id].decided_at = None /\ grec[id].decider = "none"
            /\ grec[id].status \in Terminal
                  => grec[id].decided_at # None /\ grec[id].decider # "none")
    /\ [][\A id \in Ids :
            grec[id].status \in Terminal
               => /\ grec'[id].decided_at = grec[id].decided_at
                  /\ grec'[id].decider = grec[id].decider
        ]_vars

\* C27: when the sweeper has processed a due record, the stored record has
\* status expired and decider system:timeout, one Decision (expired, no
\* final_text, system:timeout) was dispatched for it, and one activity entry
\* was logged for it.
C27_SweeperExpiresRecord ==
    [][(sw.pc = "log" /\ sw' # sw)
          => LET id == Head(sw.expired) IN
             /\ grec'[id].status = "expired"
             /\ grec'[id].decider = "system:timeout"
             /\ gdisp'[id] = <<ExpiredDecision>>
             /\ gact'[id] = 1
      ]_vars

\* C28: get_expired_candidates returns exactly the stored records that are
\* prompted and whose created_at + deadline_sec is not after its now: every
\* key that exists is read, a record joins the list exactly if it is prompted
\* and due when it is read, and no record that is new, or not yet due, is in
\* the list.
C28_ExactlyDuePrompted ==
    /\ [][/\ (sw.pc = "sleep" /\ sw'.pc = "scan")
                => /\ sw'.toscan = {i \in Ids : grec[i].status # "none"}
                   /\ sw'.now0 = gnow /\ sw'.expired = <<>>
          /\ (sw.pc = "scan" /\ sw' # sw /\ ~sw'.error)
                => \E id \in sw.toscan :
                      /\ sw'.pc = "scan" => sw'.toscan = sw.toscan \ {id}
                      /\ sw'.pc # "scan" => sw.toscan = {id}
                      /\ sw'.expired =
                            IF /\ grec[id].status = "prompted"
                               /\ grec[id].created_at + DeadlineSec <= sw.now0
                            THEN Append(sw.expired, id) ELSE sw.expired
        ]_vars
    /\ [](\A i \in 1..Len(sw.expired) :
            LET rec == grec[sw.expired[i]] IN
            /\ rec.status \notin {"none", "new"}
            /\ rec.created_at + DeadlineSec <= sw.now0)

\* a scan has returned a due prompted record and passed over a record that
\* is prompted and not yet due
C28_Witness ==
    /\ sw.pc = "upd_get" /\ sw.copy = NoRec
    /\ Len(sw.expired) = 1
    /\ \E id \in Ids : /\ id # sw.expired[1]
                       /\ grec[id].status = "prompted"
                       /\ grec[id].created_at + DeadlineSec > sw.now0

(***************************************************************************)
(* Claims about the life of the sweeper task                               *)
(***************************************************************************)
InSweep(s) == s.pc \in {"scan", "upd_get", "upd_save", "send", "log"}

\* C29: after an exception raised inside a sweep check_timeouts keeps
\* running: a sweep ends, normally or by an exception, in the sleep of one
\* sweep interval, after which the next sweep starts; the task ends only
\* when it is cancelled.
C29_LoopSurvivesExceptions ==
    [][/\ (InSweep(sw) /\ ~InSweep(sw') /\ glife # "cancelling")
             => (sw'.pc = "sleep" /\ sw'.wake = gnow + SweepIntervalSec)
       /\ (sw'.pc = "ended" /\ sw.pc # "ended") => glife = "cancelling"
       /\ (sw'.pc = "sleep" /\ sw'.error /\ glife' = "running"
               /\ gnow' >= sw'.wake /\ gcount'.sweeps < lim'.sweeps)
             => (ENABLED SwBegin)'
      ]_vars

\* a POST of the first sweep raised an exception that nothing below the loop
\* catches, and a later sweep is scanning
C29_Witness ==
    /\ \E id \in Ids : gpost[id] = <<"other">>
    /\ gcount.sweeps >= 2
    /\ sw.pc = "scan"
    /\ glife = "running"

\* C30: on shutdown the sweeper task is cancelled and awaited; wherever the
\* task is suspended, asleep or inside a call of a sweep, it ends, so the
\* shutdown completes, and no sweep runs after the cancellation.
C30_ShutdownEndsSweeper ==
    /\ [][/\ (glife = "cancelling" /\ glife' # glife) => sw'.pc = "ended"
          /\ (glife # "running" /\ sw' # sw) => (glife = "cancelling" /\ sw'.pc = "ended")
          /\ glife # "running" => gcount'.sweeps = gcount.sweeps
         ]_vars
    /\ [](glife = "closed" => sw.pc = "ended")
    /\ (glife = "cancelling") ~> (glife = "closed")

\* the shutdown is complete, and the cancellation had met the task inside a
\* sweep, between the POST of a Decision and log_activity
C30_Witness ==
    /\ glife = "closed"
    /\ sw.pc = "ended" /\ sw.expired # <<>>
    /\ gdisp[Head(sw.expired)] # <<>> /\ gact[Head(sw.expired)] = 0

(***************************************************************************)
(* Claims about concurrent callers of one spacing key                      *)
(***************************************************************************)
\* C31: any two enforce_spacing calls on one key that both return true, calls
\* that interleave at their GET and SETEX included, record times at least
\* min_spacing_sec apart: a call that returns true took its time at least
\* min_spacing_sec away from that of the call last granted before it.
C31_GrantsSpacedUnderInterleaving ==
    [][\A p \in Procs :
         (spc[p] = "setex" /\ spc'[p] = "idle" /\ slast # None) =>
            \/ sloc[p] - slast >= MinSpacingSec
            \/ slast - sloc[p] >= MinSpacingSec
      ]_vars

(***************************************************************************)
(* Claims about the ids of the workflow                                    *)
(***************************************************************************)
\* the message received is "approve <id>" as the prompt asks for it, for an
\* id of the form node_submit_for_approval issues (ag_<run_id>_<platform>)
ApproveOfWorkflowId ==
    /\ msg.ch # "none" /\ ~msg.parts.colon
    /\ msg.parts.lead = <<>> /\ msg.parts.trail = <<>>
    /\ msg.parts.word = KwApprove /\ msg.parts.sep = <<" ">>
    /\ msg.parts.id \in IdTexts
    /\ startswith(msg.parts.id, <<"a", "g", "_">>)

\* C32: for every request id the workflow submits, the reply "approve <id>"
\* is recognized by the parser of each channel, WhatsApp and iMessage, and
\* gives {approved, <id>, None}.
C32_WorkflowIdApprovable ==
    ApproveOfWorkflowId => msg.cmd = Command("approved", msg.parts.id, <<>>)

(***************************************************************************)
(* Claims about resubmissions                                              *)
(***************************************************************************)
\* C33: an authorized submission of an id whose stored record is in status
\* new is not answered "duplicate": the handler stores a fresh record in
\* status new with created_at the time of this submission, and goes through
\* the takes on both buckets, the spacing check of a channel whose take was
\* granted, and the sending of the prompts again.
C33_NewRecordIsResubmitted ==
    [][/\ \A id \in Ids :
            (/\ Submitted /\ rc'.id = id /\ rc'.auth = "ok"
             /\ grec[id].status = "new")
               => rc'.resp # "duplicate" /\ rc'.pc = "save" /\ rc'.created = gnow
       /\ (rc.pc = "save" /\ rc' # rc) =>
             /\ grec'[rc.id] = [NoRec EXCEPT !.status = "new", !.created_at = rc.created]
             /\ rc'.pc = "take_wa"
       /\ (rc.pc = "take_wa" /\ rc' # rc) => rc'.pc = "take_imsg"
       /\ (rc.pc = "take_imsg" /\ rc' # rc /\ rc.can["wa"]) => rc'.pc = "space_wa"
       /\ (rc.pc = "take_imsg" /\ rc'.pc = "take_imsg" /\ rc'.can["imsg"]) => FALSE
      ]_vars

\* the candidate was submitted twice and no other: the first submission
\* left it in status new, the second, made later, overwrote the record and
\* sent the prompt
C33_Witness ==
    /\ rc.pc = "idle" /\ rc.resp = "prompted"
    /\ gcount.submits = 2 /\ grec[2].status = "none"
    /\ grec[1].status = "prompted" /\ grec[1].created_at > 0
    /\ grec[1].prompted_at = grec[1].created_at

(***************************************************************************)
(* Claims about late and unknown decisions                                 *)
(***************************************************************************)
\* a verified POST /decisions for the id is served in this step, after the
\* wait for the id has returned by timeout
LateDecision(id) ==
    /\ ocount' = ocount + 1 /\ olast'.id = id /\ olast'.resp # "401"
    /\ orun.decisions[id] = TimeoutPayload
    /\ orun.pc \in {"wait", "done"} /\ (orun.pc = "wait" => orun.k > id)

\* C34 as stated: a decision that arrives for an id after
\* node_wait_for_decisions has returned from the wait for it by timeout
\* still resolves the id's future: receive_decision finds the future not
\* done, sets its result and answers ok.
C34_LateDecisionResolves ==
    [][\A id \in Cands :
         LateDecision(id) =>
            /\ olast'.resp = "ok"
            /\ ofut'[id] = [state |-> "done", result |-> olast'.payload]
      ]_vars

\* C34, amended: such a decision resolves nothing. asyncio.wait_for has
\* cancelled the future on timeout, so receive_decision finds it done,
\* answers ignored and leaves every future and the run as they are; the
\* run's decision for the id stays the expired one it made up.
C34_LateDecisionIgnored ==
    [][\A id \in Cands :
         LateDecision(id) =>
            /\ ofut[id].state = "cancelled"
            /\ olast'.resp = "ignored"
            /\ ofut' = ofut /\ orun' = orun
      ]_vars

\* an approval was delivered with the right credential for an id whose wait
\* had timed out, and was answered ignored
C34_Witness ==
    /\ olast.id \in Cands /\ olast.auth = "ok" /\ olast.resp = "ignored"
    /\ olast.payload.decision = "approved"
    /\ ofut[olast.id].state = "cancelled"
    /\ orun.decisions[olast.id] = TimeoutPayload

\* a POST /decisions with a valid credential is served in this step for an
\* id that has no entry in PENDING_DECISIONS
DecisionForUnregistered(id) ==
    /\ ocount' = ocount + 1 /\ olast'.id = id /\ olast'.resp # "401"
    /\ id \in Cands => ofut[id].state = "absent"

\* C35: receive_decision for an id that has no pending handle, because it
\* was never registered, answers ignored and does nothing: no entry is
\* created in PENDING_DECISIONS and no handle of another id changes, nor
\* does the run.
C35_UnknownIdIgnored ==
    [][\A id \in Cands \cup {UnknownId} :
         DecisionForUnregistered(id) =>
            /\ olast'.resp = "ignored"
            /\ ofut' = ofut /\ ofirst' = ofirst /\ orun' = orun
      ]_vars

\* a decision for an id no run has registered was answered ignored while
\* the handle of a registered id was pending, and that handle still is
C35_Witness ==
    /\ olast.id = UnknownId /\ olast.resp = "ignored" /\ olast.auth = "ok"
    /\ osecret
    /\ \E c \in Cands : ofut[c].state = "pending" /\ orun.pc = "wait" /\ orun.k = c

(***************************************************************************)
(* Claims about the keys of the rate limiter                               *)
(***************************************************************************)
\* the bucket and the spacing mark stored for a brand and a channel
BucketOf(db, brand, ch) == Stored(db, BucketKey(BucketName(ch, brand)), NoKey)
MarkOf(db, brand, ch) == Stored(db, SpacingKey(SpacingName(ch, brand)), NoMark)

\* C36: the buckets and spacing marks of distinct (brand, channel) keys are
\* independent. A take or an enforce_spacing for one brand and channel
\* leaves the bucket and the mark of every other brand and channel as they
\* are (a take leaves its own mark alone, an enforce_spacing its own
\* bucket), and its answer depends on its own key only: with refill rate 0
\* every key grants its first takes up to the capacity whatever was taken
\* from the other keys, and enforce_spacing is refused only by a recent mark
\* of its own key.
C36_KeysAreIndependent ==
    /\ [][kv' # kv =>
            LET b == kv'.last.brand
                c == kv'.last.ch
            IN  /\ \A x \in Brands \X Chans :
                      x # <<b, c>> =>
                         /\ BucketOf(kv'.db, x[1], x[2]) = BucketOf(kv.db, x[1], x[2])
                         /\ MarkOf(kv'.db, x[1], x[2]) = MarkOf(kv.db, x[1], x[2])
                /\ kv'.last.op = "take" => MarkOf(kv'.db, b, c) = MarkOf(kv.db, b, c)
                /\ kv'.last.op = "space" =>
                      /\ BucketOf(kv'.db, b, c) = BucketOf(kv.db, b, c)
                      /\ kv'.last.ok =
                            ~(/\ Live(MarkOf(kv.db, b, c), gnow)
                              /\ TooSoon(gnow, MarkOf(kv.db, b, c).at,
                                         GatewayMinSpacingSec))
        ]_vars
    /\ [](grate = 0 =>
            \A x \in Brands \X Chans :
               kv.grants[x] = Min(kv.takes[x], GatewayCapacity))

\* one brand has used up the WhatsApp bucket and was refused a further
\* take; the other brand's take on WhatsApp, made after that, was granted
C36_Witness ==
    /\ grate = 0
    /\ kv.takes[<<"b1", "wa">>] > GatewayCapacity
    /\ kv.grants[<<"b1", "wa">>] = GatewayCapacity
    /\ kv.last = [op |-> "take", brand |-> "b2", ch |-> "wa", ok |-> TRUE]
    /\ kv.grants[<<"b1", "imsg">>] = 0

(***************************************************************************)
(* Claims about the cap of the activity log                                *)
(***************************************************************************)
\* C37: after any sequence of log_activity calls the activity log of the
\* brand holds at most 1000 entries (while calls are between their ZADD and
\* their trim, at most one more per such call), and a trim that finds more
\* than 1000 entries removes the excess from the entries of the oldest
\* creation time: no entry is removed while an entry of an older
\* created_at stays.
C37_LogCappedOldestRemoved ==
    /\ [](/\ azset.calls = 0 => ZCard(azset.count) <= ActivityLogCap
          /\ ZCard(azset.count) <= ActivityLogCap + azset.calls)
    /\ [][azset'.calls < azset.calls =>
            /\ ZCard(azset'.count) = Min(ZCard(azset.count), ActivityLogCap)
            /\ \A s \in CreatedAts :
                  /\ azset'.count[s] <= azset.count[s]
                  /\ azset'.count[s] < azset.count[s] =>
                        \A t \in CreatedAts : t < s => azset'.count[t] = 0
        ]_vars

\* more entries than the cap were logged, some of them for candidates of
\* the earlier creation time: the log holds exactly the cap, and the
\* entries of the earlier creation time are the ones that are gone
C37_Witness ==
    /\ azset.calls = 0 /\ azset.added = MaxLogAdded
    /\ azset.early = MaxEarlyEntries
    /\ ZCard(azset.count) = ActivityLogCap
    /\ azset.count[SetMin(CreatedAts)] = 0

C39_RateLimitedIsFollowedUp ==
    \A id \in Ids :
        (/\ rc.pc = "idle" /\ rc.resp = "rate_limited"
         /\ id = gcount.submits
         /\ sw.pc = "sleep"
         /\ sw.wake >= grec[id].created_at + DeadlineSec + SweepIntervalSec)
        => (grec[id].status # "new" /\ gdisp[id] # <<>>)

(***************************************************************************)
(* Claims about the gates of a submission                                  *)
(***************************************************************************)
\* C40: every authorized, non-duplicate submission goes from its save to one
\* take on the WhatsApp bucket and then one take on the iMessage bucket,
\* each performed whatever the other returned and whether or not a prompt
\* follows, and the buckets change at no other step; the spacing gate of a
\* channel is evaluated, and its mark written, only in a submission whose
\* take on that channel was granted.
C40_OneTakePerChannel ==
    /\ [](\A c \in Chans : rc.pc = (IF c = "wa" THEN "space_wa" ELSE "space_imsg")
                              => rc.can[c])
    /\ [][/\ (rc.pc = "idle" /\ rc'.pc # "idle") => rc'.pc = "save"
          /\ (rc.pc = "save" /\ rc' # rc) => rc'.pc = "take_wa"
          /\ (rc.pc = "take_wa" /\ rc' # rc) =>
                LET t == TakeOne(gbucket["wa"], gnow, grate)
                IN  /\ gbucket' = [gbucket EXCEPT !["wa"] = t.key]
                    /\ rc'.pc = "take_imsg" /\ rc'.can["wa"] = t.ok
          /\ (rc.pc = "take_imsg" /\ rc' # rc) =>
                LET t == TakeOne(gbucket["imsg"], gnow, grate)
                IN  /\ gbucket' = [gbucket EXCEPT !["imsg"] = t.key]
                    /\ rc'.pc \notin {"take_wa", "take_imsg", "save"}
                    /\ rc'.pc = "space_wa" => rc.can["wa"]
                    /\ rc'.pc = "space_imsg" => t.ok
          /\ (rc.pc \notin {"take_wa", "take_imsg"} \/ rc' = rc) => gbucket' = gbucket
          /\ (rc'.pc = "take_wa" /\ rc.pc # "take_wa") => rc.pc = "save"
          /\ (rc'.pc = "take_imsg" /\ rc.pc # "take_imsg") => rc.pc = "take_wa"
          /\ \A c \in Chans :
                gmark'[c] # gmark[c] =>
                    /\ rc.pc = (IF c = "wa" THEN "space_wa" ELSE "space_imsg")
                    /\ rc.can[c]
       ]_vars

\* a second submission, made once the spacing period of the first is over,
\* has been answered rate_limited: both of its takes were performed, and
\* refused, at its time, and no mark was written since the first submission
C40_Witness ==
    /\ rc.pc = "idle" /\ rc.resp = "rate_limited" /\ gcount.submits = 2
    /\ gnow >= GatewayMinSpacingSec
    /\ \A c \in Chans :
          /\ gbucket[c].exists /\ gbucket[c].last_update = gnow
          /\ gbucket[c].tokens = 0
          /\ gmark[c].exists /\ gmark[c].at = 0
====
